---- MODULE Spec2Model ----
(***************************************************************************)
(* A model of the rustboy Game Boy emulator core: the CPU's exec loop and  *)
(* interrupt dispatch (src/src/cpu), the programmable timer                *)
(* (src/src/timer.rs), the PPU's mode state machine, OAM transfer and tile *)
(* cache (src/src/gpu.rs), the cartridge's bank controllers                *)
(* (src/src/mem/cartridge.rs), the bus (src/src/mem/mod.rs), the keypad    *)
(* (src/src/keypad.rs) and the frame loop (src/src/gb.rs).                 *)
(* Machine words keep their width: u8 values are taken modulo 256 and u16  *)
(* values modulo 65536, which is what the release build does on overflow.  *)
(***************************************************************************)
EXTENDS Integers, Sequences, FiniteSets, TLC

VARIABLES
    regs,       \* cpu.regs: the register file and the halt/stop/ime/delay flags
    mem,        \* the Memory fields the CPU touches: intf, inte, speed, rom, hram, keypad
    last,       \* locals of the last CPU::exec call (opcode, ints, pushed pc, ticks, result)
    timer,      \* the Timer struct
    tprobe,     \* cycles handed to Timer::run_cycle and overflows seen, since the last register write
    gpu,        \* the GPU fields GPU::step reads and writes
    gprobe,     \* per-scanline and per-frame observations of GPU::step
    cart,       \* the Cartridge struct: header, bank registers, RAM
    cprobe,     \* cartridge accesses: writes counted, the last write, the read after it
    gb,         \* Gameboy::run: the cycles field, whether a call is in its loop, calls and cycles
                \* so far, successive loop turns that handed on no cycles
    vid,        \* the GPU's memories: vram, vram_bank, oam, the tile cache and its update flags
    wram,       \* Memory.wram and wram_bank
    vprobe,     \* bus writes counted, the last byte written to 0xFF46, tiles written since the last render
    kprobe,     \* the buttons whose latest event is key_down, the group the last write to
                \* 0xFF00 selected, the read of 0xFF00 after them
    entry       \* the register file a program under test was entered with

\* The memories behind the bus and the keypad's observations.
units == <<vid, wram, vprobe, kprobe, entry>>

\* The cartridge, the frame loop and the units.
others == <<cart, cprobe, gb, units>>

vars == <<regs, mem, last, timer, tprobe, gpu, gprobe, others>>

-----------------------------------------------------------------------------
(* Bounds of the model *)

\* Number of program bytes placed at the cartridge entry point 0x0100.
ProgLen == 3

\* Timer register writes are explored during the first SetupCycles cycles.
SetupCycles == 8

\* Cycles the timer is stepped for in fine steps (one counter period at the
\* fastest rate is 256 * 16 = 4096 cycles).
MaxTimerCycles == 4120

\* Cycles the timer is stepped for in coarse steps (one divider period is
\* 256 * 256 = 65536 cycles).
MaxDividerCycles == 65792

-----------------------------------------------------------------------------
(* Bit operations on machine words *)

Pow2(n) == 2 ^ n

Bit(x, i) == (x \div Pow2(i)) % 2

RECURSIVE BitAndN(_, _, _)
BitAndN(x, y, n) ==
    IF n = 0 THEN 0
    ELSE (x % 2) * (y % 2) + 2 * BitAndN(x \div 2, y \div 2, n - 1)

\* x & y on u8
BitAnd(x, y) == BitAndN(x, y, 8)

\* x | y on u8
BitOr(x, y) == x + y - BitAnd(x, y)

\* x & !(1 << i) on u8
ClearBit(x, i) == x - Bit(x, i) * Pow2(i)

RECURSIVE TrailingZerosFrom(_, _)
TrailingZerosFrom(x, i) ==
    IF Bit(x, i) = 1 THEN i ELSE TrailingZerosFrom(x, i + 1)

RECURSIVE LeadingBitFrom(_, _)
LeadingBitFrom(x, i) ==
    IF Bit(x, i) = 1 THEN i ELSE LeadingBitFrom(x, i - 1)

\* Mutant of trailing_zeros: the index of the highest set bit.
trailing_zeros_highest(x) == LeadingBitFrom(x, 7)

\* u8::trailing_zeros of a nonzero byte
trailing_zeros(x) == TrailingZerosFrom(x, 0)

-----------------------------------------------------------------------------
(* Opcodes of the modelled part of the primary table *)

OP_NOP   == 0
OP_STOP  == 16
OP_INC_A == 60
OP_HALT  == 118
OP_RETI  == 217
OP_DI    == 243
OP_EI    == 251
OP_JP    == 195
OP_DEC_B == 5
OP_CPL   == 47
OP_SCF   == 55
OP_CCF   == 63
OP_RET_NZ == 192
OP_RET_Z  == 200
OP_RET    == 201
OP_RET_NC == 208
OP_RET_C  == 216
OP_POP_AF == 241
OP_XOR_A  == 175
OP_DEC_HLM == 53
OP_CB     == 203

\* Rows of exec_cb: RES b,r for the seven registers (the rows with low bits
\* 6 address memory through HL).
ResOpcodes == {op \in 128 .. 191 : op % 8 # 6}

\* Rows of the 8-bit ALU block of instructions::exec with a register operand
\* (opcode low bits 0..5 and 7), and the rows taking the byte after the opcode.
AddOpcodes == (128 .. 133) \cup {135}
AdcOpcodes == (136 .. 141) \cup {143}
SubOpcodes == (144 .. 149) \cup {151}
SbcOpcodes == (152 .. 157) \cup {159}
XorOpcodes == (168 .. 173) \cup {175}
OP_ADD_IMM == 198
OP_ADC_IMM == 206
OP_SUB_IMM == 214
OP_SBC_IMM == 222

\* PUSH BC, DE, HL, AF and POP BC, DE, HL
PushOpcodes == {197, 213, 229, 245}
PopOpcodes  == {193, 209, 225}

\* Value of last.opcode when exec fetched nothing (CPU halted or stopped).
NoOpcode == 0 - 1

\* Flag bits of F
FLAG_Z == 128
FLAG_N == 64
FLAG_H == 32
FLAG_C == 16

\* Interrupt bits of the pending and enable masks
INT_VBLANK  == 1
INT_LCDSTAT == 2
INT_TIMER   == 4
INT_SERIAL  == 8
INT_JOYPAD  == 16

\* Cartridge entry point, the reset value of PC
ENTRY == 256

\* Reset value of SP
STACK_TOP == 65534

\* HRAM is 0xFF80..0xFFFE
HRAM_BASE == 65408
HRAM_SIZE == 127

\* RAM is created filled with 0xCA
RAM_FILL == 202

ADDR_INTF == 65295
ADDR_INTE == 65535

\* The five interrupt vectors 0x40, 0x48, 0x50, 0x58, 0x60
Vectors == {64, 72, 80, 88, 96}

ProgAddrs == ENTRY .. (ENTRY + ProgLen - 1)

\* Opcodes a program byte is drawn from
ProgOpcodes == {OP_NOP, OP_INC_A, OP_HALT, OP_STOP, OP_DI, OP_EI}

-----------------------------------------------------------------------------
(* Memory bus *)

\* Memory::read_byte for the regions the CPU model reaches: cartridge ROM
\* bank 0 (a zero-filled image holding the program at the entry point and a
\* RETI at each interrupt vector), the pending mask, HRAM and the enable mask.
read_byte(m, addr) ==
    CASE addr <= 16383 ->
            IF addr \in DOMAIN m.rom THEN m.rom[addr] ELSE 0
      [] addr = ADDR_INTF -> m.intf
      [] addr >= HRAM_BASE /\ addr <= 65534 -> m.hram[addr % 128]
      [] addr = ADDR_INTE -> m.inte

\* Memory::write_byte for the same regions.
write_byte(m, addr, val) ==
    CASE addr = ADDR_INTF -> [m EXCEPT !.intf = val]
      [] addr >= HRAM_BASE /\ addr <= 65534 -> [m EXCEPT !.hram[addr % 128] = val]
      [] addr = ADDR_INTE -> [m EXCEPT !.inte = val]

read_word(m, addr) ==
    read_byte(m, addr) + 256 * read_byte(m, (addr + 1) % 65536)

write_word(m, addr, val) ==
    write_byte(write_byte(m, addr, val % 256), (addr + 1) % 65536, val \div 256)

switch_speed(m) ==
    [m EXCEPT !.speed_switch = FALSE,
              !.speed = IF m.speed = "Normal" THEN "Double" ELSE "Normal"]

-----------------------------------------------------------------------------
(* Register file *)

RegistersNew ==
    [a |-> 1, b |-> 0, c |-> 19, d |-> 0, e |-> 216, f |-> 176, h |-> 1, l |-> 77,
     sp |-> STACK_TOP, pc |-> ENTRY, ime |-> 0, halt |-> 0, stop |-> 0, delay |-> 0]

adv(r) == [r EXCEPT !.pc = (r.pc + 1) % 65536]

ret(r, m) == [r EXCEPT !.pc = read_word(m, r.sp), !.sp = (r.sp + 2) % 65536]

\* Mutant of rst: the jump is taken before the push, so the vector is stored.
rst_push_after_jump(r, m, i) ==
    LET sp1 == (r.sp + 65534) % 65536
    IN  [regs |-> [r EXCEPT !.sp = sp1, !.pc = i],
         mem  |-> write_word(m, sp1, i)]

rst(r, m, i) ==
    LET sp1 == (r.sp + 65534) % 65536
    IN  [regs |-> [r EXCEPT !.sp = sp1, !.pc = i],
         mem  |-> write_word(m, sp1, r.pc)]

ei(r, m) ==
    IF r.delay = 2 \/ read_byte(m, r.pc) = OP_HALT
    THEN [r EXCEPT !.delay = 1]
    ELSE [r EXCEPT !.delay = 2]

di(r) == [r EXCEPT !.ime = 0, !.delay = 0]

interrupt_step(r) ==
    CASE r.delay = 1 -> [r EXCEPT !.delay = 0, !.ime = 1]
      [] r.delay = 2 -> [r EXCEPT !.delay = 1]
      [] OTHER       -> r

-----------------------------------------------------------------------------
(* Instructions *)

inc_a(r) ==
    LET v == (r.a + 1) % 256
    IN  [r EXCEPT !.a = v,
                  !.f = BitOr(BitOr(BitAnd(r.f, FLAG_C),
                                    IF v = 0 THEN FLAG_Z ELSE 0),
                              IF v % 16 = 0 THEN FLAG_H ELSE 0)]

\* Opcodes with no arm in the match of instructions::exec.
UndefinedOpcodes == {211, 219, 221, 227, 228, 235, 236, 237, 244, 252, 253}

\* fn xx
xx == 0

\* The jp! macro
jp(r, m) == [r EXCEPT !.pc = read_word(m, r.pc)]

BitXor(x, y) == BitOr(x, y) - BitAnd(x, y)

\* The register named by a row of the ADD, ADC, SUB and XOR blocks.
alu_operand(op) ==
    CASE op % 8 = 0 -> "b"
      [] op % 8 = 1 -> "c"
      [] op % 8 = 2 -> "d"
      [] op % 8 = 3 -> "e"
      [] op % 8 = 4 -> "h"
      [] op % 8 = 5 -> "l"
      [] op % 8 = 7 -> "a"

\* The register every row 0x98..0x9D and 0x9F of the SBC block passes to sbc_a!.
sbc_operand(op) == "a"

\* The register pair named by a PUSH or POP row.
stack_pair(op) ==
    CASE op \div 16 = 12 -> <<"b", "c">>
      [] op \div 16 = 13 -> <<"d", "e">>
      [] op \div 16 = 14 -> <<"h", "l">>
      [] op \div 16 = 15 -> <<"a", "f">>

\* Mutant of add_a: the sum saturates at 0xFF.
add_a_saturating(r, j) ==
    LET i == r.a
        v == IF i + j > 255 THEN 255 ELSE i + j
    IN  [r EXCEPT !.a = v,
                  !.f = (IF (i % 16) + (j % 16) > 15 THEN FLAG_H ELSE 0)
                        + (IF i + j > 255 THEN FLAG_C ELSE 0)
                        + (IF v = 0 THEN FLAG_Z ELSE 0)]

\* The add_a! macro
add_a(r, j) ==
    LET i == r.a
        v == (i + j) % 256
    IN  [r EXCEPT !.a = v,
                  !.f = (IF (i % 16) + (j % 16) > 15 THEN FLAG_H ELSE 0)
                        + (IF i + j > 255 THEN FLAG_C ELSE 0)
                        + (IF v = 0 THEN FLAG_Z ELSE 0)]

\* The adc_a! macro: the sum and the flags are computed from A and the
\* operand alone.
adc_a(r, j) ==
    LET i == r.a
        v == (i + j) % 256
    IN  [r EXCEPT !.a = v,
                  !.f = (IF (i % 16) + (j % 16) > 15 THEN FLAG_H ELSE 0)
                        + (IF i + j > 255 THEN FLAG_C ELSE 0)
                        + (IF v = 0 THEN FLAG_Z ELSE 0)]

\* Mutant of sub_a: no borrow is recorded.
sub_a_no_borrow(r, b) ==
    LET a == r.a
        v == (a + 256 - b) % 256
    IN  [r EXCEPT !.a = v,
                  !.f = FLAG_N + (IF v = 0 THEN FLAG_Z ELSE 0)]

\* The sub_a! macro
sub_a(r, b) ==
    LET a == r.a
        v == (a + 256 - b) % 256
    IN  [r EXCEPT !.a = v,
                  !.f = FLAG_N
                        + (IF a < b THEN FLAG_C ELSE 0)
                        + (IF (a % 16) < (b % 16) THEN FLAG_H ELSE 0)
                        + (IF v = 0 THEN FLAG_Z ELSE 0)]

\* The sbc_a! macro: a, b and the carry are widened to 16 bits, the
\* difference wraps there and is truncated to 8 bits.
sbc_a(r, b) ==
    LET a == r.a
        c == IF BitAnd(r.f, FLAG_C) # 0 THEN 1 ELSE 0
        v == ((a + 65536 - b - c) % 65536) % 256
    IN  [r EXCEPT !.a = v,
                  !.f = FLAG_N
                        + (IF a < b + c THEN FLAG_C ELSE 0)
                        + (IF (a % 16) < (b % 16) + c THEN FLAG_H ELSE 0)
                        + (IF v = 0 THEN FLAG_Z ELSE 0)]

\* Mutant of xor_a: the flags are left as they were.
xor_a_keeps_flags(r, j) ==
    [r EXCEPT !.a = BitXor(r.a, j)]

\* The xor_a! macro
xor_a(r, j) ==
    LET v == BitXor(r.a, j)
    IN  [r EXCEPT !.a = v, !.f = IF v # 0 THEN 0 ELSE FLAG_Z]

\* The dec! macro applied to B
dec_b(r) ==
    LET v == (r.b + 255) % 256
        f == BitAnd(r.f, 31)
    IN  [r EXCEPT !.b = v,
                  !.f = BitOr(BitOr(BitOr(f, FLAG_N), IF v = 0 THEN FLAG_Z ELSE 0),
                              IF v % 16 = 15 THEN FLAG_H ELSE 0)]

\* 0x2F, 0x3F, 0x37
cpl(r) == [r EXCEPT !.a = BitXor(r.a, 255), !.f = BitOr(r.f, FLAG_N + FLAG_H)]

ccf(r) == [r EXCEPT !.f = BitOr(BitAnd(r.f, FLAG_Z), BitXor(BitAnd(r.f, FLAG_C), FLAG_C))]

scf(r) == [r EXCEPT !.f = BitOr(BitAnd(r.f, FLAG_Z), FLAG_C)]

\* The push! macro
push(r, m, r1, r2) ==
    [regs |-> [r EXCEPT !.sp = (r.sp + 65534) % 65536],
     mem  |-> write_byte(write_byte(m, (r.sp + 65535) % 65536, r[r1]),
                         (r.sp + 65534) % 65536, r[r2])]

\* The pop! macro
pop(r, m, r1, r2) ==
    [r EXCEPT ![r1] = read_byte(m, r.sp),
              ![r2] = read_byte(m, (r.sp + 1) % 65536),
              !.sp = (r.sp + 2) % 65536]

\* Mutant of pop_af: the byte popped into F is not masked.
pop_af_unmasked(r, m) ==
    [r EXCEPT !.f = read_byte(m, r.sp),
              !.a = read_byte(m, (r.sp + 1) % 65536),
              !.sp = (r.sp + 2) % 65536]

\* fn pop_af
pop_af(r, m) ==
    [r EXCEPT !.f = BitAnd(read_byte(m, r.sp), 240),
              !.a = read_byte(m, (r.sp + 1) % 65536),
              !.sp = (r.sp + 2) % 65536]

\* The ret_if! macro
ret_if(r, m, e) ==
    IF e THEN [regs |-> ret(r, m), mem |-> m, ticks |-> 5]
         ELSE [regs |-> r, mem |-> m, ticks |-> 2]

\* Registers::hl
hl(r) == r.h * 256 + r.l

\* fn dec_hlm
dec_hlm(r, m) ==
    LET k == (read_byte(m, hl(r)) + 255) % 256
    IN  [regs |-> [r EXCEPT !.f = BitAnd(r.f, FLAG_C)
                                  + (IF k # 0 THEN 0 ELSE FLAG_Z)
                                  + (IF k % 16 = 0 THEN FLAG_H ELSE 0)],
         mem  |-> write_byte(m, hl(r), k)]

\* The res! macro: regs.i &= !1 << bit, where ! applies to 1 before the
\* shift and the shifted byte is truncated to 8 bits.
res(r, i, bit) == [r EXCEPT ![i] = BitAnd(r[i], (254 * Pow2(bit)) % 256)]

\* fn exec_cb, the RES rows: the bit is opcode bits 3..5.
exec_cb(op, r, m) ==
    CASE op \in ResOpcodes ->
           [regs |-> res(r, alu_operand(op), (op - 128) \div 8), mem |-> m, ticks |-> 2]

\* instructions::exec: r is the register file after the opcode fetch.
instructions_exec(op, r, m) ==
    CASE op = OP_NOP   -> [regs |-> r, mem |-> m, ticks |-> 1]
      [] op = OP_INC_A -> [regs |-> inc_a(r), mem |-> m, ticks |-> 1]
      [] op = OP_HALT  -> [regs |-> [r EXCEPT !.halt = 1], mem |-> m, ticks |-> 1]
      [] op = OP_STOP  -> [regs |-> [r EXCEPT !.stop = 1], mem |-> m, ticks |-> 1]
      [] op = OP_DI    -> [regs |-> di(r), mem |-> m, ticks |-> 1]
      [] op = OP_EI    -> [regs |-> ei(r, m), mem |-> m, ticks |-> 1]
      [] op = OP_RETI  -> [regs |-> ret(ei(r, m), m), mem |-> m, ticks |-> 4]
      [] op = OP_JP    -> [regs |-> jp(r, m), mem |-> m, ticks |-> 4]
      [] op \in UndefinedOpcodes -> [regs |-> r, mem |-> m, ticks |-> xx]
      [] op \in AddOpcodes -> [regs |-> add_a(r, r[alu_operand(op)]), mem |-> m, ticks |-> 1]
      [] op \in AdcOpcodes -> [regs |-> adc_a(r, r[alu_operand(op)]), mem |-> m, ticks |-> 1]
      [] op \in SubOpcodes -> [regs |-> sub_a(r, r[alu_operand(op)]), mem |-> m, ticks |-> 1]
      [] op \in SbcOpcodes -> [regs |-> sbc_a(r, r[sbc_operand(op)]), mem |-> m, ticks |-> 1]
      [] op \in XorOpcodes -> [regs |-> xor_a(r, r[alu_operand(op)]), mem |-> m, ticks |-> 1]
      [] op = OP_ADD_IMM -> [regs |-> add_a(adv(r), read_byte(m, r.pc)), mem |-> m, ticks |-> 2]
      [] op = OP_ADC_IMM -> [regs |-> adc_a(adv(r), read_byte(m, r.pc)), mem |-> m, ticks |-> 2]
      [] op = OP_SUB_IMM -> [regs |-> sub_a(adv(r), read_byte(m, r.pc)), mem |-> m, ticks |-> 2]
      [] op = OP_SBC_IMM -> [regs |-> sbc_a(adv(r), read_byte(m, r.pc)), mem |-> m, ticks |-> 2]
      [] op = OP_DEC_B -> [regs |-> dec_b(r), mem |-> m, ticks |-> 1]
      [] op = OP_CPL   -> [regs |-> cpl(r), mem |-> m, ticks |-> 1]
      [] op = OP_CCF   -> [regs |-> ccf(r), mem |-> m, ticks |-> 1]
      [] op = OP_SCF   -> [regs |-> scf(r), mem |-> m, ticks |-> 1]
      [] op \in PushOpcodes ->
            LET x == push(r, m, stack_pair(op)[1], stack_pair(op)[2])
            IN  [regs |-> x.regs, mem |-> x.mem, ticks |-> 4]
      [] op \in PopOpcodes ->
            [regs |-> pop(r, m, stack_pair(op)[1], stack_pair(op)[2]), mem |-> m, ticks |-> 3]
      [] op = OP_POP_AF -> [regs |-> pop_af(r, m), mem |-> m, ticks |-> 3]
      [] op = OP_RET    -> [regs |-> ret(r, m), mem |-> m, ticks |-> 4]
      [] op = OP_RET_NZ -> ret_if(r, m, BitAnd(r.f, FLAG_Z) = 0)
      [] op = OP_RET_Z  -> ret_if(r, m, BitAnd(r.f, FLAG_Z) # 0)
      [] op = OP_RET_NC -> ret_if(r, m, BitAnd(r.f, FLAG_C) = 0)
      [] op = OP_RET_C  -> ret_if(r, m, BitAnd(r.f, FLAG_C) = 0)
      [] op = OP_CB -> exec_cb(read_byte(m, r.pc), adv(r), m)
      [] op = OP_DEC_HLM -> dec_hlm(r, m) @@ [ticks |-> 3]

-----------------------------------------------------------------------------
(* CPU::exec *)

\* Lines 41-42: the opcode fetched and what instructions::exec made of it.
fetched(op, x) == [regs |-> x.regs, mem |-> x.mem, ticks |-> x.ticks, opcode |-> op]

\* Mutant of fetch_execute: only the stop flag suspends the fetch.
fetch_execute_ignores_halt(r, m) ==
    IF r.stop = 0
    THEN LET op == read_byte(m, r.pc)
             x  == instructions_exec(op, adv(r), m)
         IN  [regs |-> x.regs, mem |-> x.mem, ticks |-> x.ticks, opcode |-> op]
    ELSE IF m.speed_switch
         THEN [regs |-> [r EXCEPT !.stop = 0], mem |-> switch_speed(m),
               ticks |-> 1, opcode |-> NoOpcode]
         ELSE [regs |-> r, mem |-> m, ticks |-> 1, opcode |-> NoOpcode]

\* Lines 39-54: run one instruction, or idle for one cycle while halted or
\* stopped (a stopped CPU performs a requested speed switch).
fetch_execute(r, m) ==
    IF r.halt = 0 /\ r.stop = 0
    THEN LET op == read_byte(m, r.pc)
         IN  fetched(op, instructions_exec(op, adv(r), m))
    ELSE IF r.stop # 0 /\ m.speed_switch
         THEN [regs |-> [r EXCEPT !.stop = 0], mem |-> switch_speed(m),
               ticks |-> 1, opcode |-> NoOpcode]
         ELSE [regs |-> r, mem |-> m, ticks |-> 1, opcode |-> NoOpcode]

\* The handler block entered only under the master enable.
pending_ints_ime_only(r, m) ==
    IF r.ime # 0 THEN BitAnd(m.intf, m.inte) ELSE 0

\* Line 59: the local ints; 0 when the handler block is not entered.
pending_ints(r, m) ==
    IF r.ime # 0 \/ r.halt # 0 THEN BitAnd(m.intf, m.inte) ELSE 0

\* Lines 72-80: the implicit call to the vector of interrupt i.
dispatch(r, m, i) ==
    IF i <= 4 THEN rst(r, m, 64 + 8 * i) ELSE [regs |-> r, mem |-> m]

\* Lines 56-84: service the lowest pending enabled interrupt.
handle_interrupts(r, m, ticks) ==
    LET ints == pending_ints(r, m)
    IN  IF ints # 0
        THEN LET i  == trailing_zeros(ints)
                 m1 == IF r.ime # 0
                       THEN [m EXCEPT !.intf = ClearBit(m.intf, i)]
                       ELSE m
                 r1 == [r EXCEPT !.ime = 0, !.halt = 0, !.stop = 0]
                 d  == dispatch(r1, m1, i)
             IN  [regs |-> d.regs, mem |-> d.mem, ticks |-> ticks + 1]
        ELSE [regs |-> r, mem |-> m, ticks |-> ticks]

\* Lines 86-91: machine cycles to base-clock cycles.
scale_ticks(ticks, speed) ==
    IF speed = "Normal" THEN ticks * 4 ELSE ticks * 2

cpu_exec(r, m) ==
    LET r1 == interrupt_step(r)
        x  == fetch_execute(r1, m)
        y  == handle_interrupts(x.regs, x.mem, x.ticks)
    IN  [regs |-> y.regs, mem |-> y.mem,
         last |-> [opcode |-> x.opcode,
                   ime    |-> x.regs.ime,
                   ints   |-> pending_ints(x.regs, x.mem),
                   pc     |-> x.regs.pc,
                   ticks  |-> x.ticks,
                   time   |-> scale_ticks(y.ticks, y.mem.speed)]]

\* Keypad::key_down
key_down(m, key) ==
    LET k == m.keypad
        k1 == CASE key = "Left"   -> [k EXCEPT !.directions = BitAnd(k.directions, 13)]
                [] key = "Right"  -> [k EXCEPT !.directions = BitAnd(k.directions, 14)]
                [] key = "Up"     -> [k EXCEPT !.directions = BitAnd(k.directions, 11)]
                [] key = "Down"   -> [k EXCEPT !.directions = BitAnd(k.directions, 7)]
                [] key = "A"      -> [k EXCEPT !.buttons = BitAnd(k.buttons, 14)]
                [] key = "B"      -> [k EXCEPT !.buttons = BitAnd(k.buttons, 13)]
                [] key = "Start"  -> [k EXCEPT !.buttons = BitAnd(k.buttons, 7)]
                [] key = "Select" -> [k EXCEPT !.buttons = BitAnd(k.buttons, 11)]
    IN  [m EXCEPT !.intf = BitOr(m.intf, INT_JOYPAD), !.keypad = k1]

-----------------------------------------------------------------------------
(* State after construction *)

\* Keypad::new
KeypadNew == [buttons |-> 15, directions |-> 15, keypad_sel |-> 0, col |-> "Direction"]

MemoryNew ==
    [intf |-> 0, inte |-> 0, speed |-> "Normal", speed_switch |-> FALSE,
     rom |-> << >>, hram |-> [i \in 0 .. (HRAM_SIZE - 1) |-> RAM_FILL],
     keypad |-> KeypadNew]

LastNone ==
    [opcode |-> NoOpcode, ime |-> 0, ints |-> 0, pc |-> ENTRY, ticks |-> 0, time |-> 0]

-----------------------------------------------------------------------------
(* Cartridge *)

\* What an access past the end of a Vec does: the thread panics.
Panic == 0 - 2

ROM_BANK_SIZE == 16384
TYPE == 327
ROM_SIZE == 328
RAM_SIZE == 329

\* Cartridge::from_file, the controller for a cartridge type byte.
mbc_of_type(t) ==
    CASE t \in {0, 8, 9}            -> "ROM"
      [] t \in {1, 2, 3}            -> "MBC1"
      [] t \in {5, 6}               -> "MBC2"
      [] t \in {15, 16, 17, 18, 19} -> "MBC3"
      [] t \in 25 .. 30             -> "MBC5"

\* Cartridge::rom_banks
rom_banks(code) ==
    CASE code = 0 -> 2
      [] code = 1 -> 4
      [] code = 2 -> 8
      [] code = 3 -> 16
      [] code = 4 -> 32
      [] code = 5 -> 64
      [] code = 6 -> 128
      [] code = 82 -> 72
      [] code = 83 -> 80
      [] code = 84 -> 96

\* Cartridge::ram_banks, times the bank size: the RAM size in bytes.
ram_size(mbc, code) ==
    IF mbc = "MBC2" THEN 256
    ELSE CASE code = 0 -> 0
           [] code = 1 -> 2 * 1024
           [] code = 2 -> 8 * 1024
           [] code = 3 -> 4 * 8 * 1024
           [] code = 4 -> 16 * 8 * 1024

\* Cartridge::from_file for a ROM file of the declared size and no save
\* file yet: ram holds the bytes written so far, every other byte is 0.
from_file(type, rom_code, ram_code) ==
    LET mbc == mbc_of_type(type)
    IN  [type |-> type, rom_code |-> rom_code, ram_code |-> ram_code,
         rom_banks |-> rom_banks(rom_code),
         rom_bank |-> 1,
         ram_enabled |-> ram_size(mbc, ram_code) # 0,
         ram_bank |-> 0,
         mbc |-> mbc,
         bank_mode |-> FALSE,
         ram_len |-> ram_size(mbc, ram_code),
         ram |-> [i \in {} |-> 0]]

\* Byte i of the ROM file: its header fields, and elsewhere a pattern that
\* tells banks and offsets apart.
rom_file_byte(c, i) ==
    CASE i = TYPE     -> c.type
      [] i = ROM_SIZE -> c.rom_code
      [] i = RAM_SIZE -> c.ram_code
      [] OTHER        -> (i + (5 * (i \div ROM_BANK_SIZE))) % 256

\* self.rom[i]
rom_at(c, i) ==
    IF i < c.rom_banks * ROM_BANK_SIZE THEN rom_file_byte(c, i) ELSE Panic

\* Cartridge::read_rom with the bank shifted one bit short.
read_rom_half_banks(c, addr) ==
    IF addr <= 16383
    THEN rom_at(c, addr)
    ELSE rom_at(c, c.rom_bank * 8192 + (addr % 16384))

\* Cartridge::read_rom
read_rom(c, addr) ==
    IF addr <= 16383
    THEN rom_at(c, addr)
    ELSE rom_at(c, c.rom_bank * 16384 + (addr % 16384))

\* Cartridge::write_rom
write_rom(c, addr, val) ==
    CASE addr <= 8191 ->
           CASE c.mbc \in {"MBC1", "MBC3", "MBC5"} ->
                  [c EXCEPT !.ram_enabled = (val % 16 = 10)]
             [] c.mbc = "MBC2" ->
                  IF (addr \div 256) % 2 = 0
                  THEN [c EXCEPT !.ram_enabled = ~c.ram_enabled] ELSE c
             [] OTHER -> c
      [] addr \in 8192 .. 16383 ->
           CASE c.mbc = "MBC1" ->
                  LET b == ((c.rom_bank \div 32) % 4) * 32 + (val % 32)
                  IN  [c EXCEPT !.rom_bank = IF b = 0 THEN 1 ELSE b]
             [] c.mbc = "MBC2" ->
                  IF (addr \div 256) % 2 # 0
                  THEN [c EXCEPT !.rom_bank = val % 16] ELSE c
             [] c.mbc = "MBC3" ->
                  LET v == val % 128
                  IN  [c EXCEPT !.rom_bank = v + (IF v # 0 THEN 0 ELSE 1)]
             [] c.mbc = "MBC5" ->
                  IF addr \div 4096 = 2
                  THEN [c EXCEPT !.rom_bank = (c.rom_bank \div 256) * 256 + val]
                  ELSE [c EXCEPT !.rom_bank = (c.rom_bank % 256) + (val % 2) * 256]
             [] OTHER -> c
      [] addr \in 16384 .. 24575 ->
           CASE c.mbc = "MBC1" ->
                  IF ~c.bank_mode
                  THEN [c EXCEPT !.rom_bank = (c.rom_bank % 32) + (val % 4) * 32]
                  ELSE [c EXCEPT !.ram_bank = val % 4]
             [] c.mbc = "MBC3" -> [c EXCEPT !.ram_bank = val % 4]
             [] c.mbc = "MBC5" -> [c EXCEPT !.ram_bank = val % 16]
             [] OTHER -> c
      [] addr \in 24576 .. 32767 ->
           IF c.mbc = "MBC1" THEN [c EXCEPT !.bank_mode = (val % 2 # 0)] ELSE c

\* The index of a cartridge RAM access: (ram_bank << 12) | (addr & 0x1FFF),
\* the bank bits overlapping bit 12 of the address.
ram_index(c, addr) ==
    LET b == c.ram_bank * 4096
        a == addr % 8192
    IN  IF (b \div 4096) % 2 = 1 /\ (a \div 4096) % 2 = 1 THEN b + a - 4096 ELSE b + a

\* self.ram[i]
ram_at(c, i) ==
    IF i >= c.ram_len THEN Panic ELSE IF i \in DOMAIN c.ram THEN c.ram[i] ELSE 0

\* Cartridge::read_ram answering from RAM whatever the enable flag is.
read_ram_always(c, addr) == ram_at(c, ram_index(c, addr))

\* Cartridge::read_ram
read_ram(c, addr) ==
    IF c.ram_enabled THEN ram_at(c, ram_index(c, addr)) ELSE 255

\* Cartridge::write_ram; a write past the end of the RAM panics.
write_ram(c, addr, val) ==
    LET i == ram_index(c, addr)
    IN  IF ~c.ram_enabled THEN [cart |-> c, panic |-> FALSE]
        ELSE IF i >= c.ram_len THEN [cart |-> c, panic |-> TRUE]
        ELSE [cart |-> [c EXCEPT !.ram = [j \in (DOMAIN c.ram) \cup {i} |->
                                             IF j = i THEN val ELSE c.ram[j]]],
              panic |-> FALSE]

\* The cartridge the other components run with: ROM only, two banks.
CartridgeNew == from_file(0, 0, 0)

\* Nothing written yet.
CartProbeNew ==
    [writes |-> 0, waddr |-> 0, wval |-> 0,
     op |-> "none", addr |-> 0, val |-> 0, panic |-> FALSE]

\* Gameboy::new: cycles is 0 and run has not been called.
\* The u32 field is kept as two 16-bit halves (hi * 65536 + lo).
GameboyNew ==
    [cycles |-> [hi |-> 0, lo |-> 0], running |-> FALSE, calls |-> 0, total |-> 0,
     stalls |-> 0]

\* gpu.rs:6
OAM_SIZE == 160

\* gpu.rs:7
NUM_TILES == 384

\* A byte array kept as the bytes written to it over the fill of its
\* construction: the function holds the written cells only.
Put(f, k, v) == [j \in (DOMAIN f) \cup {k} |-> IF j = k THEN v ELSE f[j]]

Get(f, k, fill) == IF k \in DOMAIN f THEN f[k] ELSE fill

\* GPU::new: both VRAM banks, OAM and the tile cache are zero-filled and no
\* tile is flagged. vram is indexed by bank * 8192 + offset.
VideoNew ==
    [vram |-> [i \in {} |-> 0], vram_bank |-> 0, is_cgb |-> FALSE,
     oam |-> [i \in 0 .. (OAM_SIZE - 1) |-> 0],
     tiles |-> [data |-> [i \in {} |-> 0], need_update |-> FALSE, to_update |-> {}]]

\* Memory::new: RAM::new fills with 0xCA, wram_bank is 1.
WramNew == [data |-> [i \in {} |-> 0], wram_bank |-> 1]

\* No 0xFF46 write yet.
NoDma == 0 - 1

VideoProbeNew == [writes |-> 0, dma |-> NoDma, dirty |-> {}, rendered |-> FALSE]

\* lib.rs Button
Buttons == {"Left", "Right", "Up", "Down", "A", "B", "Start", "Select"}

\* No button is down, no group was selected by a write, nothing was read.
KeypadProbeNew == [down |-> {}, sel |-> "none", op |-> "none", val |-> 0]

UnitsNew ==
    /\ vid = VideoNew
    /\ wram = WramNew
    /\ vprobe = VideoProbeNew
    /\ kprobe = KeypadProbeNew
    /\ entry = RegistersNew

OthersNew ==
    /\ cart = CartridgeNew
    /\ cprobe = CartProbeNew
    /\ gb = GameboyNew
    /\ UnitsNew

-----------------------------------------------------------------------------
(* GPU *)

\* GPU::new: the fields of the mode state machine.
GpuNew ==
    [internal_clock |-> 0, mode |-> "RdOAM", ly |-> 0, lyc |-> 0,
     lcd_enabled |-> FALSE, lycly |-> FALSE,
     mode0_int |-> FALSE, mode1_int |-> FALSE, mode2_int |-> FALSE]

\* GPU::switch_mode without the VBlank request.
switch_mode_silent_vblank(g, intf, mode) ==
    [gpu  |-> [g EXCEPT !.mode = mode],
     intf |-> IF \/ mode = "HBlank" /\ g.mode0_int
                 \/ mode = "VBlank" /\ g.mode1_int
                 \/ mode = "RdOAM" /\ g.mode2_int
              THEN BitOr(intf, INT_LCDSTAT) ELSE intf]

\* GPU::switch_mode
switch_mode(g, intf, mode) ==
    LET i1 == IF mode = "VBlank" THEN BitOr(intf, INT_VBLANK) ELSE intf
        i2 == IF \/ mode = "HBlank" /\ g.mode0_int
                 \/ mode = "VBlank" /\ g.mode1_int
                 \/ mode = "RdOAM" /\ g.mode2_int
              THEN BitOr(i1, INT_LCDSTAT) ELSE i1
    IN  [gpu |-> [g EXCEPT !.mode = mode], intf |-> i2]

\* The line counter after one more line, never wrapping at the frame's end.
next_line_one_more(ly) == (ly + 1) % 155

\* GPU::step, the line counter after a completed line.
next_line(ly) == (ly + 1) % 154

\* The mode of a visible line with HBlank entered where VRAM-scan begins.
line_mode_early_hblank(clock) ==
    IF clock <= 80 THEN "RdOAM" ELSE IF clock <= 252 THEN "HBlank" ELSE "RdVRAM"

\* GPU::step, the mode of a visible line at a given in-line clock.
line_mode(clock) ==
    IF clock <= 80 THEN "RdOAM" ELSE IF clock <= 252 THEN "RdVRAM" ELSE "HBlank"

\* GPU::step switching between the line modes on every line, the lines of
\* the vertical blank included.
gpu_step_modes_in_vblank(g, intf, ticks) ==
    LET c0 == g.internal_clock + ticks
        s1 == IF c0 >= 456
              THEN LET g1 == [g EXCEPT !.internal_clock = c0 - 456,
                                       !.ly = next_line(g.ly)]
                       v  == IF g1.ly >= 144 /\ g1.mode # "VBlank"
                             THEN switch_mode(g1, intf, "VBlank")
                             ELSE [gpu |-> g1, intf |-> intf]
                   IN  [v EXCEPT !.intf = IF v.gpu.ly = v.gpu.lyc /\ v.gpu.lycly
                                          THEN BitOr(@, INT_LCDSTAT) ELSE @]
              ELSE [gpu |-> [g EXCEPT !.internal_clock = c0], intf |-> intf]
    IN  IF s1.gpu.mode # line_mode(s1.gpu.internal_clock)
        THEN switch_mode(s1.gpu, s1.intf, line_mode(s1.gpu.internal_clock))
        ELSE s1

\* GPU::step entering the vertical blank one line late.
gpu_step_vblank_from_145(g, intf, ticks) ==
    LET c0 == g.internal_clock + ticks
        s1 == IF c0 >= 456
              THEN LET g1 == [g EXCEPT !.internal_clock = c0 - 456,
                                       !.ly = next_line(g.ly)]
                       v  == IF g1.ly >= 145 /\ g1.mode # "VBlank"
                             THEN switch_mode(g1, intf, "VBlank")
                             ELSE [gpu |-> g1, intf |-> intf]
                   IN  [v EXCEPT !.intf = IF v.gpu.ly = v.gpu.lyc /\ v.gpu.lycly
                                          THEN BitOr(@, INT_LCDSTAT) ELSE @]
              ELSE [gpu |-> [g EXCEPT !.internal_clock = c0], intf |-> intf]
    IN  IF s1.gpu.ly < 144 /\ s1.gpu.mode # line_mode(s1.gpu.internal_clock)
        THEN switch_mode(s1.gpu, s1.intf, line_mode(s1.gpu.internal_clock))
        ELSE s1

\* GPU::step
gpu_step(g, intf, ticks) ==
    LET c0 == g.internal_clock + ticks
        s1 == IF c0 >= 456
              THEN LET g1 == [g EXCEPT !.internal_clock = c0 - 456,
                                       !.ly = next_line(g.ly)]
                       v  == IF g1.ly >= 144 /\ g1.mode # "VBlank"
                             THEN switch_mode(g1, intf, "VBlank")
                             ELSE [gpu |-> g1, intf |-> intf]
                   IN  [v EXCEPT !.intf = IF v.gpu.ly = v.gpu.lyc /\ v.gpu.lycly
                                          THEN BitOr(@, INT_LCDSTAT) ELSE @]
              ELSE [gpu |-> [g EXCEPT !.internal_clock = c0], intf |-> intf]
    IN  IF s1.gpu.ly < 144 /\ s1.gpu.mode # line_mode(s1.gpu.internal_clock)
        THEN switch_mode(s1.gpu, s1.intf, line_mode(s1.gpu.internal_clock))
        ELSE s1

\* GPU::write_byte, the LCDC register (0xFF40).
write_lcdc(g, val) ==
    LET on == Bit(val, 7) = 1
    IN  IF ~g.lcd_enabled /\ on
        THEN [g EXCEPT !.lcd_enabled = on, !.internal_clock = 4, !.ly = 0]
        ELSE [g EXCEPT !.lcd_enabled = on]

\* enum Mode as u8
mode_code(mode) ==
    CASE mode = "HBlank" -> 0
      [] mode = "VBlank" -> 1
      [] mode = "RdOAM"  -> 2
      [] mode = "RdVRAM" -> 3

\* GPU::read_byte, the STAT register (0xFF41).
read_stat(g) ==
    (IF g.lycly THEN 64 ELSE 0)
    + (IF g.mode2_int THEN 32 ELSE 0)
    + (IF g.mode1_int THEN 16 ELSE 0)
    + (IF g.mode0_int THEN 8 ELSE 0)
    + (IF (IF g.lycly THEN 1 ELSE 0) = g.ly THEN 4 ELSE 0)
    + mode_code(g.mode)

\* GPU::write_byte, the STAT register (0xFF41).
write_stat(g, val) ==
    [g EXCEPT !.lycly = Bit(val, 6) = 1,
              !.mode2_int = Bit(val, 5) = 1,
              !.mode1_int = Bit(val, 4) = 1,
              !.mode0_int = Bit(val, 3) = 1]

\* GPU::write_byte, the LYC register (0xFF45).
write_lyc(g, val) == [g EXCEPT !.lyc = val]

\* What the GPU was given since a line (sl_) and a frame (fr_) began at
\* in-line clock 0: the cycles stepped, the modes seen after each step
\* within the line, the VBlank requests of the frame; raised tells whether
\* the last step requested VBlank.
GpuProbeNew ==
    [sl_on |-> FALSE, sl_ly0 |-> 0, sl_cycles |-> 0, sl_modes |-> << >>,
     fr_on |-> FALSE, fr_cycles |-> 0, fr_vblanks |-> 0, raised |-> FALSE]

-----------------------------------------------------------------------------
(* Timer *)

TimerNew ==
    [divider |-> 0, counter |-> 0, modulo |-> 0, enabled |-> FALSE, step |-> 0,
     internal_divider |-> 0, internal_counter |-> 0]

\* Mutant of divider_loop: the divider ticks every 64 cycles.
RECURSIVE divider_loop_every_64(_)
divider_loop_every_64(t) ==
    IF t.internal_divider >= 64
    THEN divider_loop_every_64([t EXCEPT !.divider = (@ + 1) % 256,
                                         !.internal_divider = @ - 64])
    ELSE t

\* Lines 51-55: while internal_divider >= 256
RECURSIVE divider_loop(_)
divider_loop(t) ==
    IF t.internal_divider >= 256
    THEN divider_loop([t EXCEPT !.divider = (@ + 1) % 256,
                                !.internal_divider = @ - 256])
    ELSE t

\* Mutant of counter_loop: an overflow leaves the counter at 0.
RECURSIVE counter_loop_no_reload(_)
counter_loop_no_reload(s) ==
    IF s.timer.internal_counter >= s.timer.step
    THEN LET c == (s.timer.counter + 1) % 256
         IN  counter_loop_no_reload(
                 [timer |-> [s.timer EXCEPT !.counter = c,
                                            !.internal_counter = @ - s.timer.step],
                  intf |-> IF c = 0 THEN BitOr(s.intf, INT_TIMER) ELSE s.intf,
                  overflows |-> s.overflows + (IF c = 0 THEN 1 ELSE 0)])
    ELSE s

\* Lines 61-70: while internal_counter >= step. s.overflows counts the
\* executions of line 67, which sets the Timer bit.
RECURSIVE counter_loop(_)
counter_loop(s) ==
    IF s.timer.internal_counter >= s.timer.step
    THEN LET c == (s.timer.counter + 1) % 256
         IN  counter_loop(
                 [timer |-> [s.timer EXCEPT !.counter = IF c = 0 THEN s.timer.modulo ELSE c,
                                            !.internal_counter = @ - s.timer.step],
                  intf |-> IF c = 0 THEN BitOr(s.intf, INT_TIMER) ELSE s.intf,
                  overflows |-> s.overflows + (IF c = 0 THEN 1 ELSE 0)])
    ELSE s

\* Timer::run_cycle
run_cycle(t, intf, ticks) ==
    LET t1 == divider_loop([t EXCEPT !.internal_divider = @ + ticks])
    IN  IF t1.enabled
        THEN counter_loop([timer |-> [t1 EXCEPT !.internal_counter = @ + ticks],
                           intf |-> intf, overflows |-> 0])
        ELSE [timer |-> t1, intf |-> intf, overflows |-> 0]

ADDR_DIV  == 65284
ADDR_TIMA == 65285
ADDR_TMA  == 65286
ADDR_TAC  == 65287

\* Mutant of timer_step_of: the rates of bits 01 and 10 are exchanged.
timer_step_of_swapped(b) ==
    CASE b % 4 = 0 -> 1024
      [] b % 4 = 1 -> 64
      [] b % 4 = 2 -> 16
      [] b % 4 = 3 -> 256

\* Lines 133-149: the cycles per increment selected by bits 0-1.
timer_step_of(b) ==
    CASE b % 4 = 0 -> 1024
      [] b % 4 = 1 -> 16
      [] b % 4 = 2 -> 64
      [] b % 4 = 3 -> 256

\* Timer::write_byte
timer_write_byte(t, addr, b) ==
    CASE addr = ADDR_DIV  -> [t EXCEPT !.divider = 0]
      [] addr = ADDR_TIMA -> [t EXCEPT !.counter = b]
      [] addr = ADDR_TMA  -> [t EXCEPT !.modulo = b]
      [] addr = ADDR_TAC  -> [t EXCEPT !.step = timer_step_of(b),
                                       !.enabled = (Bit(b, 2) # 0)]

\* What the timer was given since its registers were last written: cycles
\* stepped (elapsed: since construction), executions of line 67, the counter
\* and its accumulator as the write left them, the last control byte.
TimerProbeNew ==
    [elapsed |-> 0, cycles |-> 0, overflows |-> 0, counter0 |-> 0, acc0 |-> 0, tac |-> 0]

\* Bytes written to the timer registers.
TimerBytes(addr) ==
    CASE addr = ADDR_DIV  -> {0}
      [] addr = ADDR_TIMA -> {0, 255}
      [] addr = ADDR_TMA  -> {0, 128, 255}
      [] addr = ADDR_TAC  -> {0, 4, 5, 6, 7, 253}

\* Cycle counts handed to run_cycle: instruction-sized, and whole periods.
TimerTicks == {8, 16, 24}
DividerTicks == {64, 192, 256}

TimerInit ==
    /\ regs = RegistersNew
    /\ mem = MemoryNew
    /\ last = LastNone
    /\ timer = TimerNew
    /\ tprobe = TimerProbeNew
    /\ gpu = GpuNew
    /\ gprobe = GpuProbeNew
    /\ OthersNew

TimerRun(ticks, limit) ==
    /\ tprobe.elapsed + ticks <= limit
    /\ LET x == run_cycle(timer, mem.intf, ticks)
       IN  /\ timer' = x.timer
           /\ mem' = [mem EXCEPT !.intf = x.intf]
           /\ tprobe' = [tprobe EXCEPT !.elapsed = @ + ticks,
                                       !.cycles = @ + ticks,
                                       !.overflows = @ + x.overflows]
    /\ UNCHANGED <<regs, last, gpu, gprobe, others>>

TimerWrite(addr, b) ==
    /\ tprobe.elapsed <= SetupCycles
    /\ timer' = timer_write_byte(timer, addr, b)
    /\ tprobe' = [tprobe EXCEPT !.cycles = 0,
                                !.overflows = 0,
                                !.counter0 = timer'.counter,
                                !.acc0 = timer'.internal_counter,
                                !.tac = IF addr = ADDR_TAC THEN b ELSE @]
    /\ UNCHANGED <<regs, mem, last, gpu, gprobe, others>>

TimerWrites ==
    \E addr \in {ADDR_DIV, ADDR_TIMA, ADDR_TMA, ADDR_TAC} :
        \E b \in TimerBytes(addr) : TimerWrite(addr, b)

TimerNext ==
    \/ \E ticks \in TimerTicks : TimerRun(ticks, MaxTimerCycles)
    \/ TimerWrites

SpecTimer == TimerInit /\ [][TimerNext]_vars

DividerNext ==
    \/ \E ticks \in DividerTicks : TimerRun(ticks, MaxDividerCycles)
    \/ TimerWrites

SpecDivider == TimerInit /\ [][DividerNext]_vars

-----------------------------------------------------------------------------
(* The CPU under a program *)

\* Pending and enable masks the machine is configured with at program entry.
IntfVals == {0, 5, 26}
InteVals == {0, 5, 24, 28, 31}

\* Keys the host presses while the program runs.
CpuKeys == {"Start"}

\* Addresses exec fetches from: the program and the vector handlers.
ExecAddrs == ProgAddrs \cup Vectors

RomImages ==
    {[a \in ExecAddrs |-> IF a \in Vectors THEN OP_RETI ELSE p[a]] :
        p \in [ProgAddrs -> ProgOpcodes]}

CpuInit ==
    /\ regs = RegistersNew
    /\ timer = TimerNew
    /\ tprobe = TimerProbeNew
    /\ gpu = GpuNew
    /\ gprobe = GpuProbeNew
    /\ OthersNew
    /\ \E image \in RomImages, pf \in IntfVals, en \in InteVals, sw \in BOOLEAN :
          mem = [MemoryNew EXCEPT !.rom = image, !.intf = pf, !.inte = en,
                                  !.speed_switch = sw]
    /\ last = LastNone

Exec ==
    /\ regs.halt # 0 \/ regs.stop # 0 \/ regs.pc \in ExecAddrs
    /\ LET x == cpu_exec(regs, mem)
       IN  /\ regs' = x.regs
           /\ mem' = x.mem
           /\ last' = x.last
    /\ UNCHANGED <<timer, tprobe, gpu, gprobe, others>>

KeyDown ==
    /\ \E key \in CpuKeys : mem' = key_down(mem, key)
    /\ UNCHANGED <<regs, last, timer, tprobe, gpu, gprobe, others>>

CpuNext == Exec \/ KeyDown

SpecCpu == CpuInit /\ [][CpuNext]_vars

-----------------------------------------------------------------------------
(* The GPU stepped by the memory bus *)

\* Cycle counts Memory::step hands to GPU::step: what CPU::exec returns at
\* normal speed, 1 to 6 machine cycles plus one for a dispatch, times 4.
GpuTicks == {4, 8, 12, 16, 20, 24, 28}

\* Bytes written to LCDC: display off, display on.
LcdcBytes == {0, 145}

GpuInit ==
    /\ regs = RegistersNew
    /\ mem = MemoryNew
    /\ last = LastNone
    /\ timer = TimerNew
    /\ tprobe = TimerProbeNew
    /\ gpu = GpuNew
    /\ gprobe = GpuProbeNew
    /\ OthersNew

\* The line probe after a step of ticks cycles that left the GPU in g1.
LineProbe(ticks, g1) ==
    LET start == gpu.internal_clock = 0 /\ gpu.mode = "RdOAM" /\ gpu.ly < 143
        cyc   == IF start THEN ticks ELSE gprobe.sl_cycles + ticks
        seen  == IF start THEN <<"RdOAM">> ELSE gprobe.sl_modes
        modes == IF cyc < 456 /\ seen[Len(seen)] # g1.mode
                 THEN Append(seen, g1.mode) ELSE seen
    IN  IF (start \/ gprobe.sl_on) /\ cyc <= 456
        THEN [sl_on |-> TRUE, sl_ly0 |-> IF start THEN gpu.ly ELSE gprobe.sl_ly0,
              sl_cycles |-> cyc, sl_modes |-> modes]
        ELSE [sl_on |-> FALSE, sl_ly0 |-> 0, sl_cycles |-> 0, sl_modes |-> << >>]

\* The frame probe after a step of ticks cycles; raised: it requested VBlank.
FrameProbe(ticks, raised) ==
    LET start == gpu.internal_clock = 0 /\ gpu.ly = 0
        n     == IF raised THEN 1 ELSE 0
    IN  IF start
        THEN [fr_on |-> TRUE, fr_cycles |-> ticks, fr_vblanks |-> n]
        ELSE IF gprobe.fr_on /\ gprobe.fr_cycles + ticks <= 154 * 456
        THEN [fr_on |-> TRUE, fr_cycles |-> gprobe.fr_cycles + ticks,
              fr_vblanks |-> gprobe.fr_vblanks + n]
        ELSE [fr_on |-> FALSE, fr_cycles |-> 0, fr_vblanks |-> 0]

\* Memory::step, the GPU's share.
GpuStep(ticks) ==
    LET x      == gpu_step(gpu, mem.intf, ticks)
        raised == Bit(gpu_step(gpu, 0, ticks).intf, 0) = 1
        sl     == LineProbe(ticks, x.gpu)
        fr     == FrameProbe(ticks, raised)
    IN  /\ gpu' = x.gpu
        /\ mem' = [mem EXCEPT !.intf = x.intf]
        /\ gprobe' = [sl_on |-> sl.sl_on, sl_ly0 |-> sl.sl_ly0,
                      sl_cycles |-> sl.sl_cycles, sl_modes |-> sl.sl_modes,
                      fr_on |-> fr.fr_on, fr_cycles |-> fr.fr_cycles,
                      fr_vblanks |-> fr.fr_vblanks, raised |-> raised]
        /\ UNCHANGED <<regs, last, timer, tprobe, others>>

\* A program's write to LCDC; switching the display on restarts the line
\* and the frame in the middle, so both probes stop.
WriteLcdc(val) ==
    /\ gpu' = write_lcdc(gpu, val)
    /\ gprobe' = IF gpu'.internal_clock # gpu.internal_clock \/ gpu'.ly # gpu.ly
                 THEN GpuProbeNew
                 ELSE [gprobe EXCEPT !.raised = FALSE]
    /\ UNCHANGED <<regs, mem, last, timer, tprobe, others>>

GpuSteps == \E ticks \in GpuTicks : GpuStep(ticks)

GpuNext ==
    \/ GpuSteps
    \/ \E val \in LcdcBytes : WriteLcdc(val)

SpecGpu == GpuInit /\ [][GpuNext]_vars

-----------------------------------------------------------------------------
(* Properties of interrupt dispatch *)

\* The lowest set bit of a nonzero byte, stated without the search loop.
LowestBit(x) == CHOOSE i \in 0 .. 7 : Bit(x, i) = 1 /\ \A j \in 0 .. (i - 1) : Bit(x, j) = 0

GeneralRegs(r) == <<r.a, r.b, r.c, r.d, r.e, r.f, r.h, r.l>>

\* The address of the instruction that would run next if the call that
\* fetched last'.opcode dispatched nothing.
ReturnAddress ==
    IF last'.opcode = NoOpcode THEN regs.pc
    ELSE IF last'.opcode = OP_RETI THEN read_word(mem, regs.sp)
    ELSE (regs.pc + 1) % 65536

\* The stack pointer the instruction of that call leaves behind.
StackAfterInstruction ==
    IF last'.opcode = OP_RETI THEN (regs.sp + 2) % 65536 ELSE regs.sp

\* C1: when exec reaches its interrupt check with the master enable set and
\* VBlank (bit 0) and Timer (bit 2) both pending and both enabled, it jumps
\* to the VBlank vector 0x0040 and clears bit 0 of the pending mask only, so
\* the Timer bit is still pending after the call.
C1_VBlankBeforeTimer ==
    [][(/\ Exec
        /\ last'.ime # 0
        /\ Bit(mem.intf, 0) = 1 /\ Bit(mem.intf, 2) = 1
        /\ Bit(mem.inte, 0) = 1 /\ Bit(mem.inte, 2) = 1)
       => (/\ regs'.pc = 64
           /\ mem'.intf = mem.intf - INT_VBLANK
           /\ Bit(mem'.intf, 2) = 1)]_vars

C1_Witness ==
    /\ last.ime # 0
    /\ BitAnd(last.ints, 5) = 5
    /\ regs.pc = 64
    /\ Bit(mem.intf, 0) = 0 /\ Bit(mem.intf, 2) = 1

\* C2: an exec call that services interrupt i (the lowest set bit of
\* pending & enable, i in 0..4) with the master enable set clears bit i of
\* pending, clears master enable, halt and stop, lowers SP by 2, stores the
\* address of the next instruction at SP (low byte first), sets PC to
\* 0x0040 + 8*i and returns one machine cycle more than the instruction took.
C2_ServiceEffects ==
    [][(/\ Exec
        /\ last'.ime # 0
        /\ last'.ints # 0
        /\ LowestBit(last'.ints) <= 4)
       => LET i == LowestBit(last'.ints)
          IN  /\ last'.ints = BitAnd(mem.intf, mem.inte)
              /\ mem'.intf = ClearBit(mem.intf, i)
              /\ Bit(mem'.intf, i) = 0
              /\ regs'.ime = 0 /\ regs'.halt = 0 /\ regs'.stop = 0
              /\ regs'.sp = StackAfterInstruction - 2
              /\ read_byte(mem', regs'.sp) = ReturnAddress % 256
              /\ read_byte(mem', regs'.sp + 1) = ReturnAddress \div 256
              /\ regs'.pc = 64 + 8 * i
              /\ last'.time = (last'.ticks + 1) * (IF mem'.speed = "Normal" THEN 4 ELSE 2)]_vars

C2_Witness ==
    /\ last.ime # 0
    /\ last.ints = INT_JOYPAD
    /\ regs.pc = 96
    /\ regs.sp = STACK_TOP - 2
    /\ read_word(mem, regs.sp) \in ProgAddrs \cup {ENTRY + ProgLen}
    /\ last.time > last.ticks * 2

\* Opcodes that leave the interrupt enable state and the run state alone.
PlainOpcodes == {OP_NOP, OP_INC_A}

\* C3: EI takes effect after the following instruction: when the previous
\* exec call ran EI with the master enable clear and dispatched nothing, and
\* an enabled interrupt is pending, the exec call that runs the following
\* instruction ends by dispatching that interrupt.
C3_DispatchAfterOneInstruction ==
    [][(/\ Exec
        /\ last.opcode = OP_EI /\ last.ime = 0 /\ last.ints = 0
        /\ BitAnd(mem.intf, mem.inte) # 0
        /\ LowestBit(BitAnd(mem.intf, mem.inte)) <= 4
        /\ last'.opcode \in PlainOpcodes)
       => (/\ last'.ints # 0
           /\ regs'.pc = 64 + 8 * LowestBit(BitAnd(mem.intf, mem.inte)))]_vars

\* C4: a halted CPU stays halted across exec calls while pending & enable is
\* zero: the call fetches nothing, leaves PC, SP, the general registers and
\* memory unchanged and returns one idle machine cycle (4 base cycles at
\* normal speed); the exec call that finds pending & enable nonzero clears
\* the halt flag.
C4_HaltedUntilPending ==
    [][(Exec /\ regs.halt # 0)
       => IF BitAnd(mem.intf, mem.inte) = 0
          THEN /\ regs'.halt # 0
               /\ last'.opcode = NoOpcode
               /\ regs'.pc = regs.pc /\ regs'.sp = regs.sp
               /\ GeneralRegs(regs') = GeneralRegs(regs)
               /\ mem' = mem
               /\ last'.ticks = 1
               /\ last'.time = (IF mem.speed = "Normal" THEN 4 ELSE 2)
          ELSE regs'.halt = 0]_vars

C4_Witness ==
    /\ regs.halt # 0
    /\ last.opcode = NoOpcode
    /\ last.ints = 0
    /\ last.time = 4
    /\ BitAnd(mem.intf, mem.inte) # 0

-----------------------------------------------------------------------------
(* Properties of the timer *)

\* C8: with the control register written to enable + fastest rate (bits
\* 101, 16 cycles per increment), the counter at 0 and its accumulator at 0,
\* stepping exactly 256 * 16 cycles, however split, sets the Timer bit of
\* the pending mask exactly once and leaves the counter equal to the modulo
\* register.
C8_OneOverflowPerPeriod ==
    (/\ tprobe.tac % 8 = 5
     /\ tprobe.counter0 = 0
     /\ tprobe.acc0 = 0
     /\ tprobe.cycles = 256 * 16)
    => (/\ tprobe.overflows = 1
        /\ Bit(mem.intf, 2) = 1
        /\ timer.counter = timer.modulo)

C8_Witness ==
    /\ tprobe.tac % 8 = 5
    /\ tprobe.counter0 = 0
    /\ tprobe.acc0 = 0
    /\ tprobe.cycles = 256 * 16
    /\ timer.modulo = 128
    /\ timer.counter = 128

\* Cycles per counter increment for the rate bits of a control byte.
RateCycles(tac) ==
    CASE tac % 4 = 0 -> 1024
      [] tac % 4 = 1 -> 16
      [] tac % 4 = 2 -> 64
      [] tac % 4 = 3 -> 256

\* C9: while the enable bit of the last control byte is set, the counter
\* gains 1 for every N cycles accumulated, N = 1024, 16, 64, 256 for rate
\* bits 00, 01, 10, 11 (stated up to the first overflow since the registers
\* were written); while the enable bit is clear, stepping never changes it.
C9_RatePerControlBits ==
    IF Bit(tprobe.tac, 2) = 1
    THEN tprobe.overflows = 0
         => timer.counter =
                tprobe.counter0 + (tprobe.acc0 + tprobe.cycles) \div RateCycles(tprobe.tac)
    ELSE timer.counter = tprobe.counter0

C9_Witness ==
    /\ tprobe.tac = 6
    /\ tprobe.overflows = 0
    /\ tprobe.cycles >= 128
    /\ timer.counter = tprobe.counter0 + 2

\* C10 as stated: the divider gains 1 (mod 256) for every 64 cycles handed
\* to the timer, enabled or not.
C10_DividerEvery64 ==
    [][tprobe'.elapsed # tprobe.elapsed
       => timer'.divider =
              (timer.divider + tprobe'.elapsed \div 64 - tprobe.elapsed \div 64) % 256]_vars

\* C10 amended: the divider gains 1 (mod 256) for every 256 cycles handed
\* to the timer, enabled or not.
C10_DividerEvery256 ==
    [][tprobe'.elapsed # tprobe.elapsed
       => timer'.divider =
              (timer.divider + tprobe'.elapsed \div 256 - tprobe.elapsed \div 256) % 256]_vars

C10_Witness ==
    /\ tprobe.elapsed = 256 * 256
    /\ timer.divider = 0
    /\ ~timer.enabled
    /\ timer.internal_divider = 0

-----------------------------------------------------------------------------
(* Properties of the GPU *)

\* C5: from the start of OAM-scan on a visible line (in-line clock 0,
\* LY < 143), stepped exactly 456 cycles in steps of at most 28 cycles, the
\* mode takes the values OAM-scan, VRAM-scan, HBlank in that order with no
\* other mode in between, and LY ends exactly 1 higher.
C5_LineModeSequence ==
    /\ gprobe.sl_on
       => \E n \in 1 .. 3 : gprobe.sl_modes = SubSeq(<<"RdOAM", "RdVRAM", "HBlank">>, 1, n)
    /\ (gprobe.sl_on /\ gprobe.sl_cycles = 456)
       => /\ gprobe.sl_modes = <<"RdOAM", "RdVRAM", "HBlank">>
          /\ gpu.ly = gprobe.sl_ly0 + 1

C5_Witness ==
    /\ gprobe.sl_on
    /\ gprobe.sl_cycles = 456
    /\ gprobe.sl_ly0 = 142
    /\ gpu.ly = 143
    /\ gprobe.sl_modes = <<"RdOAM", "RdVRAM", "HBlank">>

\* C6: in a frame of 154 scanlines the VBlank bit of the pending mask is
\* set exactly once, in the step where LY becomes 144; the mode is VBlank
\* on lines 144..153 and OAM-scan again when a step wraps LY to 0.
C6_VBlankOncePerFrame ==
    /\ []((gprobe.fr_on /\ gprobe.fr_cycles = 154 * 456) => gprobe.fr_vblanks = 1)
    /\ [](gpu.ly >= 144 => gpu.mode = "VBlank")
    /\ [][GpuSteps => /\ gprobe'.raised <=> (gpu.ly = 143 /\ gpu'.ly = 144)
                      /\ gprobe'.raised => Bit(mem'.intf, 0) = 1
                      /\ (gpu.ly = 153 /\ gpu'.ly = 0) => gpu'.mode = "RdOAM"]_vars

C6_Witness ==
    /\ gprobe.fr_on
    /\ gprobe.fr_cycles = 154 * 456
    /\ gprobe.fr_vblanks = 1
    /\ gpu.mode = "RdOAM"
    /\ Bit(mem.intf, 0) = 1

\* C7: LY is always in 0..153, and 154 * 456 cycles of stepping from LY = 0
\* at in-line clock 0 bring LY back to 0.
C7_LineCounterRange ==
    /\ gpu.ly \in 0 .. 153
    /\ (gprobe.fr_on /\ gprobe.fr_cycles = 154 * 456) => gpu.ly = 0

C7_Witness ==
    /\ gprobe.fr_on
    /\ gprobe.fr_cycles = 154 * 456
    /\ gpu.ly = 0
    /\ gpu.internal_clock = 0
    /\ gpu.lcd_enabled

-----------------------------------------------------------------------------
(* The cartridge under a program's bus accesses *)

\* Cartridge writes are counted up to this many.
MaxCartWrites == 2

\* Cartridge type bytes: ROM only, MBC1, MBC1 + RAM + battery, MBC2, MBC3 +
\* RAM + battery, MBC5 + RAM + battery.
CartTypes == {0, 1, 3, 5, 19, 27}

\* ROM-size codes (2 and 8 banks) and RAM-size codes (none, 8 kB).
RomCodes == {0, 2}
RamCodes == {0, 2}

\* Addresses and bytes of bank-controller writes.
CtrlAddrs == {0, 8192, 8448, 12288, 16384, 24576}
CtrlBytes == {0, 1, 2, 10, 32}

\* Addresses of cartridge RAM accesses, the byte written there, and the
\* addresses read in the swappable ROM bank.
RamAddrs == {40960, 45056}
RamByte == 90
BankAddrs == {16384, 16385, 32767}

CartInit ==
    /\ regs = RegistersNew
    /\ mem = MemoryNew
    /\ last = LastNone
    /\ timer = TimerNew
    /\ tprobe = TimerProbeNew
    /\ gpu = GpuNew
    /\ gprobe = GpuProbeNew
    /\ \E t \in CartTypes, rc \in RomCodes, mc \in RamCodes :
          cart = from_file(t, rc, mc)
    /\ cprobe = CartProbeNew
    /\ gb = GameboyNew
    /\ UnitsNew

CountWrite(n) == IF n < MaxCartWrites THEN n + 1 ELSE n

\* Memory::write_byte, 0x0000-0x7FFF
WriteRom(addr, val) ==
    /\ ~cprobe.panic
    /\ cart' = write_rom(cart, addr, val)
    /\ cprobe' = [writes |-> CountWrite(cprobe.writes), waddr |-> addr, wval |-> val,
                  op |-> "none", addr |-> 0, val |-> 0, panic |-> FALSE]
    /\ UNCHANGED <<regs, mem, last, timer, tprobe, gpu, gprobe, gb, units>>

\* Memory::write_byte, 0xA000-0xBFFF
WriteRam(addr, val) ==
    /\ ~cprobe.panic
    /\ LET x == write_ram(cart, addr, val)
       IN  /\ cart' = x.cart
           /\ cprobe' = [writes |-> CountWrite(cprobe.writes), waddr |-> addr,
                         wval |-> val, op |-> "none", addr |-> 0, val |-> 0,
                         panic |-> x.panic]
    /\ UNCHANGED <<regs, mem, last, timer, tprobe, gpu, gprobe, gb, units>>

\* Memory::read_byte, 0x4000-0x7FFF
ReadRom(addr) ==
    /\ ~cprobe.panic
    /\ LET v == read_rom(cart, addr)
       IN  cprobe' = [cprobe EXCEPT !.op = "read_rom", !.addr = addr,
                                    !.val = v, !.panic = (v = Panic)]
    /\ UNCHANGED <<regs, mem, last, timer, tprobe, gpu, gprobe, cart, gb, units>>

\* Memory::read_byte, 0xA000-0xBFFF
ReadRam(addr) ==
    /\ ~cprobe.panic
    /\ LET v == read_ram(cart, addr)
       IN  cprobe' = [cprobe EXCEPT !.op = "read_ram", !.addr = addr,
                                    !.val = v, !.panic = (v = Panic)]
    /\ UNCHANGED <<regs, mem, last, timer, tprobe, gpu, gprobe, cart, gb, units>>

WriteRoms == \E addr \in CtrlAddrs, val \in CtrlBytes : WriteRom(addr, val)
WriteRams == \E addr \in RamAddrs : WriteRam(addr, RamByte)
ReadRoms == \E addr \in BankAddrs : ReadRom(addr)
ReadRams == \E addr \in RamAddrs : ReadRam(addr)

CartNext == WriteRoms \/ WriteRams \/ ReadRoms \/ ReadRams

SpecCart == CartInit /\ [][CartNext]_vars

-----------------------------------------------------------------------------
(* Properties of the cartridge *)

\* The bank-select bits of a byte written to 0x2000-0x3FFF.
SelectBits(mbc, val) == IF mbc = "MBC1" THEN val % 32 ELSE val % 128

\* C11: on MBC1 and MBC3, a write to 0x2000-0x3FFF whose bank-select bits
\* are all 0 leaves the swappable ROM bank equal to 1, whatever writes
\* preceded it.
C11_BankZeroSelectsOne ==
    (/\ cart.mbc \in {"MBC1", "MBC3"}
     /\ cprobe.waddr \in 8192 .. 16383
     /\ SelectBits(cart.mbc, cprobe.wval) = 0)
    => cart.rom_bank = 1

\* C12: on MBC1 and MBC3, after any sequence of writes to 0x0000-0x7FFF
\* the swappable ROM bank index is never 0.
C12_BankNeverZero ==
    cart.mbc \in {"MBC1", "MBC3"} => cart.rom_bank # 0

\* C13: with a bank N selected, 1 <= N < declared bank count, a read of
\* 0x4000 + k returns byte N * 0x4000 + k of the ROM image.
C13_BankedRead ==
    (/\ cprobe.op = "read_rom"
     /\ cart.rom_bank >= 1
     /\ cart.rom_bank < rom_banks(cart.rom_code))
    => cprobe.val = rom_file_byte(cart, cart.rom_bank * 16384 + (cprobe.addr - 16384))

C13_Witness ==
    /\ cprobe.op = "read_rom"
    /\ cprobe.addr = 32767
    /\ cart.mbc = "MBC5"
    /\ cart.rom_bank = 2
    /\ cprobe.writes > 0
    /\ cprobe.val = rom_file_byte(cart, 3 * 16384 - 1)

\* C14: for a ROM image with type byte 0x01 and ROM-size code 0x00, as
\* loaded, writing 0x02 to 0x2000 and then reading 0x4000 returns the first
\* byte of ROM bank 2.
C14_SelectBankTwo ==
    (/\ cart.type = 1
     /\ cart.rom_code = 0
     /\ cprobe.writes = 1
     /\ cprobe.waddr = 8192
     /\ cprobe.wval = 2
     /\ cprobe.op = "read_rom"
     /\ cprobe.addr = 16384)
    => cprobe.val = rom_file_byte(cart, 2 * 16384)

\* C15: while cartridge RAM is disabled, a read of 0xA000-0xBFFF returns
\* 0xFF and a write to 0xA000-0xBFFF leaves every cartridge RAM byte as it
\* was.
C15_DisabledRam ==
    /\ []((cprobe.op = "read_ram" /\ ~cart.ram_enabled) => cprobe.val = 255)
    /\ [][(WriteRams /\ ~cart.ram_enabled)
          => (cart'.ram = cart.ram /\ ~cprobe'.panic)]_vars

C15_Witness ==
    /\ ~cart.ram_enabled
    /\ cprobe.waddr = 40960
    /\ cprobe.op = "read_ram"
    /\ cprobe.addr = 40960
    /\ cprobe.val = 255
    /\ cart.ram_len > 0
    /\ ram_at(cart, 0) = RamByte

-----------------------------------------------------------------------------
(* The CPU under a program holding undefined opcodes *)

\* Program bytes: two instructions and two opcodes without an instruction.
UndefProgOpcodes == {OP_NOP, OP_EI, 211, 253}

UndefRomImages ==
    {[a \in ExecAddrs |-> IF a \in Vectors THEN OP_RETI ELSE p[a]] :
        p \in [ProgAddrs -> UndefProgOpcodes]}

UndefInit ==
    /\ regs = RegistersNew
    /\ timer = TimerNew
    /\ tprobe = TimerProbeNew
    /\ gpu = GpuNew
    /\ gprobe = GpuProbeNew
    /\ OthersNew
    /\ \E image \in UndefRomImages, pf \in IntfVals, en \in InteVals :
          mem = [MemoryNew EXCEPT !.rom = image, !.intf = pf, !.inte = en]
    /\ last = LastNone

SpecUndef == UndefInit /\ [][CpuNext]_vars

\* C16: an exec that fetches an undefined opcode returns zero elapsed
\* cycles and leaves the program counter at the address of that opcode, so
\* the next exec fetches the same byte again.
C16_UndefinedOpcodeStalls ==
    [][(Exec /\ last'.opcode \in UndefinedOpcodes)
       => (last'.time = 0 /\ regs'.pc = regs.pc)]_vars

-----------------------------------------------------------------------------
(* Gameboy::run *)

\* u32 arithmetic on the two halves of the cycles field, wrapping at 2^32.
u32_add(x, n) ==
    LET v == x.lo + n
    IN  [hi |-> (x.hi + (v \div 65536)) % 65536, lo |-> v % 65536]

u32_sub(x, n) ==
    LET v == x.lo - n
    IN  IF v >= 0 THEN [hi |-> x.hi, lo |-> v]
        ELSE [hi |-> (x.hi - 1) % 65536, lo |-> v + 65536]

u32_le(x, n) == x.hi < n \div 65536 \/ (x.hi = n \div 65536 /\ x.lo <= n % 65536)

u32_lt(x, n) == x.hi < n \div 65536 \/ (x.hi = n \div 65536 /\ x.lo < n % 65536)

\* The cycles run adds to the field on entry.
FRAME_CYCLES == 70224

\* Calls of run that are followed.
MaxRunCalls == 2

\* Memory::step: the timer, then the GPU, each given the same cycles.
mem_step(t, g, intf, time) ==
    LET x == run_cycle(t, intf, time)
        y == gpu_step(g, x.intf, time)
    IN  [timer |-> x.timer, gpu |-> y.gpu, intf |-> y.intf]

\* The loop condition of run with the bound excluded.
run_continues_below(cycles) == u32_lt(cycles, FRAME_CYCLES)

\* The loop condition of run.
run_continues(cycles) == u32_le(cycles, FRAME_CYCLES)

\* Programs that never leave the modelled addresses, each with its
\* interrupt-enable byte: a jump to itself; NOP and an undefined opcode
\* before the jump back; EI, HALT, NOP and the jump back, woken by the
\* VBlank interrupt the GPU raises.
RunPrograms ==
    {[code |-> <<OP_JP, 0, 1>>, inte |-> 0],
     [code |-> <<OP_NOP, 211, OP_JP, 0, 1>>, inte |-> 0],
     [code |-> <<OP_EI, OP_HALT, OP_NOP, OP_JP, 0, 1>>, inte |-> INT_VBLANK]}

RunRomImage(prog) ==
    [a \in Vectors \cup (ENTRY .. (ENTRY + Len(prog) - 1)) |->
        IF a \in Vectors THEN OP_RETI ELSE prog[a - ENTRY + 1]]

RunInit ==
    /\ regs = RegistersNew
    /\ last = LastNone
    /\ timer = TimerNew
    /\ tprobe = TimerProbeNew
    /\ gpu = GpuNew
    /\ gprobe = GpuProbeNew
    /\ cart = CartridgeNew
    /\ cprobe = CartProbeNew
    /\ gb = GameboyNew
    /\ UnitsNew
    /\ \E prog \in RunPrograms :
          mem = [MemoryNew EXCEPT !.rom = RunRomImage(prog.code), !.inte = prog.inte]

\* run is called: line 105.
RunCall ==
    /\ ~gb.running
    /\ gb.calls < MaxRunCalls
    /\ gb' = [gb EXCEPT !.cycles = u32_add(@, FRAME_CYCLES),
                        !.running = TRUE,
                        !.calls = @ + 1]
    /\ UNCHANGED <<regs, mem, last, timer, tprobe, gpu, gprobe, cart, cprobe, units>>

\* One turn of the loop: lines 106-111.
RunLoop ==
    /\ gb.running
    /\ run_continues(gb.cycles)
    /\ LET x == cpu_exec(regs, mem)
           y == mem_step(timer, gpu, x.mem.intf, x.last.time)
       IN  /\ regs' = x.regs
           /\ last' = x.last
           /\ timer' = y.timer
           /\ gpu' = y.gpu
           /\ mem' = [x.mem EXCEPT !.intf = y.intf]
           /\ gb' = [gb EXCEPT !.cycles = u32_sub(@, x.last.time),
                               !.total = @ + x.last.time,
                               !.stalls = IF x.last.time = 0 THEN @ + 1 ELSE 0]
    /\ UNCHANGED <<tprobe, gprobe, cart, cprobe, units>>

\* The loop condition fails and run returns.
RunReturn ==
    /\ gb.running
    /\ ~run_continues(gb.cycles)
    /\ gb' = [gb EXCEPT !.running = FALSE]
    /\ UNCHANGED <<regs, mem, last, timer, tprobe, gpu, gprobe, cart, cprobe, units>>

RunNext == RunCall \/ RunLoop \/ RunReturn

SpecRun == RunInit /\ [][RunNext]_vars

\* 2^32 minus the cycles field, for a field that has wrapped below 0 by less
\* than 65536; 65536 for every other field.
Overshoot == IF gb.cycles.hi = 65535 THEN 65536 - gb.cycles.lo ELSE 65536

-----------------------------------------------------------------------------
(* The bus over the memories: Memory::read_byte and Memory::write_byte *)

\* GPU::read_byte, VRAM and OAM
gpu_read_byte(v, addr) ==
    IF addr >= 32768 /\ addr <= 40959
    THEN Get(v.vram, v.vram_bank * 8192 + (addr % 8192), 0)
    ELSE v.oam[addr % 256]

\* GPU::update_tile marking the tile without raising need_update.
update_tile_unflagged(v, addr) ==
    LET tile_i == ((addr % 8192) \div 16) + v.vram_bank * NUM_TILES
    IN  [v EXCEPT !.tiles.to_update = @ \cup {tile_i}]

\* GPU::update_tile
update_tile(v, addr) ==
    LET tile_i == ((addr % 8192) \div 16) + v.vram_bank * NUM_TILES
    IN  [v EXCEPT !.tiles.need_update = TRUE,
                  !.tiles.to_update = @ \cup {tile_i}]

\* GPU::write_byte, VRAM and OAM
gpu_write_byte(v, addr, val) ==
    IF addr >= 32768 /\ addr <= 40959
    THEN LET v1 == [v EXCEPT !.vram = Put(@, v.vram_bank * 8192 + (addr % 8192), val)]
         IN  IF addr < 38912 THEN update_tile(v1, addr) ELSE v1
    ELSE [v EXCEPT !.oam[addr % 256] = val]

\* Memory::read_byte from 0x0000 to 0xFEFF.
bus_read_byte(c, w, v, addr) ==
    CASE addr <= 16383 -> rom_at(c, addr)
      [] addr >= 16384 /\ addr <= 32767 -> read_rom(c, addr)
      [] addr >= 32768 /\ addr <= 40959 -> gpu_read_byte(v, addr)
      [] addr >= 40960 /\ addr <= 49151 -> read_ram(c, addr)
      [] (addr >= 49152 /\ addr <= 53247) \/ (addr >= 57344 /\ addr <= 61439) ->
            Get(w.data, addr % 4096, RAM_FILL)
      [] (addr >= 53248 /\ addr <= 57343) \/ (addr >= 61440 /\ addr <= 65023) ->
            Get(w.data, w.wram_bank * 4096 + (addr % 4096), RAM_FILL)
      [] addr >= 65024 /\ addr <= 65183 -> gpu_read_byte(v, addr)
      [] addr >= 65184 /\ addr <= 65279 -> 255

\* Memory::write_byte from 0x8000 to 0x9FFF and from 0xC000 to 0xFEFF.
bus_write_byte(w, v, addr, val) ==
    CASE addr >= 32768 /\ addr <= 40959 ->
            [wram |-> w, vid |-> gpu_write_byte(v, addr, val)]
      [] (addr >= 49152 /\ addr <= 53247) \/ (addr >= 57344 /\ addr <= 61439) ->
            [wram |-> [w EXCEPT !.data = Put(@, addr % 4096, val)], vid |-> v]
      [] (addr >= 53248 /\ addr <= 57343) \/ (addr >= 61440 /\ addr <= 65023) ->
            [wram |-> [w EXCEPT !.data = Put(@, w.wram_bank * 4096 + (addr % 4096), val)],
             vid |-> v]
      [] addr >= 65024 /\ addr <= 65183 ->
            [wram |-> w, vid |-> gpu_write_byte(v, addr, val)]
      [] addr >= 65184 /\ addr <= 65279 -> [wram |-> w, vid |-> v]

\* The loop of GPU::oam_dma_transfer: entry i becomes the byte the bus
\* holds at or_val | i. The low byte of or_val is 0, so the only OAM entry
\* turn i can read is entry i itself, which it has not written yet: every
\* turn reads the bus as it was when the loop began.
dma_loop(c, w, v, or_val) ==
    [v EXCEPT !.oam = [i \in 0 .. (OAM_SIZE - 1) |-> bus_read_byte(c, w, v, or_val + i)]]

\* GPU::oam_dma_transfer returning for 0xF100 as well.
oam_dma_transfer_from_f100(c, w, v, val) ==
    LET or_val == val * 256
    IN  IF or_val >= 61696 THEN v ELSE dma_loop(c, w, v, or_val)

\* GPU::oam_dma_transfer
oam_dma_transfer(c, w, v, val) ==
    LET or_val == val * 256
    IN  IF or_val > 61696 THEN v ELSE dma_loop(c, w, v, or_val)

-----------------------------------------------------------------------------
(* A machine that writes to its memories and then starts a transfer *)

\* Writes to the memories in one behaviour.
MaxBusWrites == 2

\* The bytes written to 0xFF46; 0xFF takes the same early return as 0xF2
\* to 0xFE.
DmaVals == 0 .. 254

\* One address in WRAM bank 0, one in the mirror of the switchable WRAM
\* bank, one in VRAM, one in OAM.
BusWriteAddrs == {49157, 61776, 32771, 65031}

\* The address of the DMA register.
ADDR_DMA == 65350

DmaInit ==
    /\ regs = RegistersNew
    /\ mem = MemoryNew
    /\ last = LastNone
    /\ timer = TimerNew
    /\ tprobe = TimerProbeNew
    /\ gpu = GpuNew
    /\ gprobe = GpuProbeNew
    /\ OthersNew

\* Memory::write_byte to one of the memories, before the transfer.
BusWrite(addr, val) ==
    /\ vprobe.dma = NoDma
    /\ vprobe.writes < MaxBusWrites
    /\ LET x == bus_write_byte(wram, vid, addr, val)
       IN  /\ wram' = x.wram
           /\ vid' = x.vid
    /\ vprobe' = [vprobe EXCEPT !.writes = @ + 1]
    /\ UNCHANGED <<regs, mem, last, timer, tprobe, gpu, gprobe, cart, cprobe, gb, kprobe, entry>>

\* Memory::write_byte_io, 0xFF46: the one transfer of the behaviour, so that
\* every byte is tried on every content the writes leave.
DmaWrite(val) ==
    /\ vprobe.dma = NoDma
    /\ vid' = oam_dma_transfer(cart, wram, vid, val)
    /\ vprobe' = [vprobe EXCEPT !.dma = val]
    /\ UNCHANGED <<regs, mem, last, timer, tprobe, gpu, gprobe, cart, cprobe, gb, wram,
                   kprobe, entry>>

BusWrites == \E addr \in BusWriteAddrs : BusWrite(addr, RamByte)
DmaWrites == \E val \in DmaVals : DmaWrite(val)

DmaNext == BusWrites \/ DmaWrites

SpecDma == DmaInit /\ [][DmaNext]_vars

\* The 160 bytes the bus holds from (val << 8) on.
DmaSource(val) == [i \in 0 .. (OAM_SIZE - 1) |-> bus_read_byte(cart, wram, vid, val * 256 + i)]

\* The original statement of C18: whatever byte is written to 0xFF46, OAM
\* holds the 160 bytes of the bus from (val << 8) on after the write.
C18_DmaCopiesEveryValue ==
    [][vprobe'.dma # vprobe.dma => vid'.oam = DmaSource(vprobe'.dma)]_vars

\* C18: a write of val to 0xFF46 copies the 160 bytes the bus holds from
\* (val << 8) on into OAM, in order, for val from 0x00 to 0xF1; for val from
\* 0xF2 on it leaves OAM as it is. Nothing but OAM changes.
C18_DmaCopiesBelowF2 ==
    [][vprobe'.dma # vprobe.dma
       => /\ vid'.oam = IF vprobe'.dma <= 241 THEN DmaSource(vprobe'.dma) ELSE vid.oam
          /\ vid' = [vid EXCEPT !.oam = vid'.oam]
          /\ wram' = wram /\ cart' = cart]_vars

\* A transfer from WRAM after a byte was written there, and one from the
\* last page that is copied.
C18_Witness ==
    /\ vprobe.dma = 192
    /\ vprobe.writes = 2
    /\ vid.oam[5] = RamByte
    /\ vid.oam[6] = RAM_FILL
    /\ vid.oam[159] = RAM_FILL

-----------------------------------------------------------------------------
(* Keypad *)

\* Keypad::key_up without effect.
key_up_ignored(m, key) == m

\* Keypad::key_up: the masks are the complements of key_down's as u8, so the
\* upper four bits are set along with the button's bit.
key_up(m, key) ==
    LET k == m.keypad
        k1 == CASE key = "Left"   -> [k EXCEPT !.directions = BitOr(k.directions, 242)]
                [] key = "Right"  -> [k EXCEPT !.directions = BitOr(k.directions, 241)]
                [] key = "Up"     -> [k EXCEPT !.directions = BitOr(k.directions, 244)]
                [] key = "Down"   -> [k EXCEPT !.directions = BitOr(k.directions, 248)]
                [] key = "A"      -> [k EXCEPT !.buttons = BitOr(k.buttons, 241)]
                [] key = "B"      -> [k EXCEPT !.buttons = BitOr(k.buttons, 242)]
                [] key = "Start"  -> [k EXCEPT !.buttons = BitOr(k.buttons, 248)]
                [] key = "Select" -> [k EXCEPT !.buttons = BitOr(k.buttons, 244)]
    IN  [m EXCEPT !.keypad = k1]

\* Keypad::read_byte
keypad_read_byte(k) ==
    CASE k.col = "Button"    -> k.buttons
      [] k.col = "Direction" -> k.directions
      [] k.col = "MltReq"    -> 15 - k.keypad_sel

\* Keypad::write_byte
keypad_write_byte(k, val) ==
    LET sel == BitAnd(255 - val, 48)
    IN  CASE sel = 32 -> [k EXCEPT !.col = "Button"]
          [] sel = 16 -> [k EXCEPT !.col = "Direction"]
          [] sel = 0  -> [k EXCEPT !.col = "MltReq"]
          [] OTHER    -> k

-----------------------------------------------------------------------------
(* A host that presses and releases buttons while the program polls 0xFF00 *)

\* Bytes written to 0xFF00: bit 4 low (directions), bit 5 low (actions),
\* both high, both low.
SelectBytes == {32, 16, 48, 0}

KeypadInit ==
    /\ regs = RegistersNew
    /\ mem = MemoryNew
    /\ last = LastNone
    /\ timer = TimerNew
    /\ tprobe = TimerProbeNew
    /\ gpu = GpuNew
    /\ gprobe = GpuProbeNew
    /\ OthersNew

\* Gameboy::key_down
PressKey(key) ==
    /\ mem' = key_down(mem, key)
    /\ kprobe' = [kprobe EXCEPT !.down = @ \cup {key}, !.op = "none", !.val = 0]
    /\ UNCHANGED <<regs, last, timer, tprobe, gpu, gprobe, cart, cprobe, gb, vid, wram,
                   vprobe, entry>>

\* Gameboy::key_up
ReleaseKey(key) ==
    /\ mem' = key_up(mem, key)
    /\ kprobe' = [kprobe EXCEPT !.down = @ \ {key}, !.op = "none", !.val = 0]
    /\ UNCHANGED <<regs, last, timer, tprobe, gpu, gprobe, cart, cprobe, gb, vid, wram,
                   vprobe, entry>>

\* Memory::write_byte_io, 0xFF00. Bit 4 low alone selects the directions, bit
\* 5 low alone the actions.
SelectGroup(val) ==
    /\ mem' = [mem EXCEPT !.keypad = keypad_write_byte(@, val)]
    /\ kprobe' = [kprobe EXCEPT !.sel = CASE Bit(val, 4) = 0 /\ Bit(val, 5) = 1 -> "Direction"
                                          [] Bit(val, 5) = 0 /\ Bit(val, 4) = 1 -> "Button"
                                          [] OTHER -> "none",
                                !.op = "none", !.val = 0]
    /\ UNCHANGED <<regs, last, timer, tprobe, gpu, gprobe, cart, cprobe, gb, vid, wram,
                   vprobe, entry>>

\* Memory::read_byte_io, 0xFF00
ReadKeypad ==
    /\ kprobe.op = "none"
    /\ kprobe' = [kprobe EXCEPT !.op = "read", !.val = keypad_read_byte(mem.keypad)]
    /\ UNCHANGED <<regs, mem, last, timer, tprobe, gpu, gprobe, cart, cprobe, gb, vid, wram,
                   vprobe, entry>>

PressKeys == \E key \in Buttons : PressKey(key)
ReleaseKeys == \E key \in Buttons : ReleaseKey(key)
SelectGroups == \E val \in SelectBytes : SelectGroup(val)

KeypadNext == PressKeys \/ ReleaseKeys \/ SelectGroups \/ ReadKeypad

SpecKeypad == KeypadInit /\ [][KeypadNext]_vars

\* The buttons of a group and the bit of the register each one drives.
GroupButtons(group) ==
    IF group = "Direction" THEN {"Right", "Left", "Up", "Down"}
    ELSE {"A", "B", "Select", "Start"}

ButtonBit(key) ==
    CASE key \in {"Right", "A"}     -> 0
      [] key \in {"Left", "B"}      -> 1
      [] key \in {"Up", "Select"}   -> 2
      [] key \in {"Down", "Start"}  -> 3

\* C19: a read of 0xFF00 that follows a write selecting the directions or
\* the actions has, in its low four bits, 0 at the bit of every button of
\* that group whose latest event is key_down and 1 at the bit of every other
\* button of the group.
C19_ActiveLowGroup ==
    (kprobe.op = "read" /\ kprobe.sel # "none")
    => \A key \in GroupButtons(kprobe.sel) :
          Bit(kprobe.val, ButtonBit(key)) = (IF key \in kprobe.down THEN 0 ELSE 1)

\* Left was pressed and released, Up and A are held, the directions are read.
C19_Witness ==
    /\ kprobe.op = "read"
    /\ kprobe.sel = "Direction"
    /\ kprobe.down = {"Up", "A"}
    /\ kprobe.val % 16 = 11
    /\ kprobe.val >= 16

-----------------------------------------------------------------------------
(* The tile cache *)

\* A cache entry as GPU::new leaves it.
ZeroTile == [j \in 0 .. 7 |-> [k \in 0 .. 7 |-> 0]]

\* The inner loops of GPU::update_tileset for cache entry i: row j is built
\* from the two bytes at (i % 384) * 16 + j * 2 of bank 0 for the entries
\* below 384 and of bank 1 for the others; pixel k takes bit 7 - k of both.
tile_rows(v, i) ==
    LET bank == IF i < NUM_TILES THEN 0 ELSE 1
    IN  [j \in 0 .. 7 |->
            LET addr == ((i % NUM_TILES) * 16) + j * 2
                lsb  == Get(v.vram, bank * 8192 + addr, 0)
                msb  == Get(v.vram, bank * 8192 + addr + 1, 0)
            IN  [k \in 0 .. 7 |-> 2 * Bit(msb, 7 - k) + Bit(lsb, 7 - k)]]

\* GPU::update_tileset
update_tileset(v) ==
    [v EXCEPT !.tiles.data = [i \in (DOMAIN @) \cup v.tiles.to_update |->
                                 IF i \in v.tiles.to_update THEN tile_rows(v, i) ELSE @[i]],
              !.tiles.to_update = {}]

\* GPU::render_line, as far as the cache goes: the background, window and
\* sprite passes read tiles.data and write the image only.
render_line(v, g) ==
    IF ~g.lcd_enabled THEN v
    ELSE IF v.tiles.need_update
         THEN [update_tileset(v) EXCEPT !.tiles.need_update = FALSE]
         ELSE v

\* GPU::write_byte, the VRAM bank register (0xFF4F).
write_vbk(v, val) == IF v.is_cgb THEN [v EXCEPT !.vram_bank = val % 2] ELSE v

-----------------------------------------------------------------------------
(* A program that writes tiles while the GPU draws lines *)

\* Lines the GPU draws after the display was last switched on.
MaxTileLines == 2

\* Cycle counts handed to GPU::step.
TileTicks == {16, 24}

\* The first two bytes of tile 0, the last byte of tile 383, the first byte
\* of the tile map.
TileAddrs == {32768, 32769, 38911, 38912}

\* The byte written: pixel 0 and pixel 7 of a row.
TileByte == 129

TileInit ==
    /\ regs = RegistersNew
    /\ mem = MemoryNew
    /\ last = LastNone
    /\ timer = TimerNew
    /\ tprobe = TimerProbeNew
    /\ gpu = GpuNew
    /\ gprobe = GpuProbeNew
    /\ cart = CartridgeNew
    /\ cprobe = CartProbeNew
    /\ gb = GameboyNew
    /\ \E cgb \in BOOLEAN : vid = [VideoNew EXCEPT !.is_cgb = cgb]
    /\ wram = WramNew
    /\ vprobe = VideoProbeNew
    /\ kprobe = KeypadProbeNew
    /\ entry = RegistersNew

\* Memory::write_byte, 0x8000-0x9FFF. The tile written, by its cache index,
\* joins the tiles written since the last render.
TileWrite(addr, val) ==
    /\ vprobe.writes < MaxBusWrites
    /\ vid' = gpu_write_byte(vid, addr, val)
    /\ vprobe' = [vprobe EXCEPT
                     !.writes = @ + 1,
                     !.dirty = IF addr < 38912
                               THEN @ \cup {((addr - 32768) \div 16) + vid.vram_bank * NUM_TILES}
                               ELSE @,
                     !.rendered = FALSE]
    /\ UNCHANGED <<regs, mem, last, timer, tprobe, gpu, gprobe, cart, cprobe, gb, wram,
                   kprobe, entry>>

\* Memory::write_byte_io, 0xFF4F
TileBank(val) ==
    /\ vid' = write_vbk(vid, val)
    /\ vprobe' = [vprobe EXCEPT !.rendered = FALSE]
    /\ UNCHANGED <<regs, mem, last, timer, tprobe, gpu, gprobe, cart, cprobe, gb, wram,
                   kprobe, entry>>

\* Memory::write_byte_io, 0xFF40
TileLcdc(val) ==
    /\ gpu' = write_lcdc(gpu, val)
    /\ vprobe' = [vprobe EXCEPT !.rendered = FALSE]
    /\ UNCHANGED <<regs, mem, last, timer, tprobe, gprobe, cart, cprobe, gb, vid, wram,
                   kprobe, entry>>

\* Memory::step, the GPU's share: GPU::step calls switch_mode, which calls
\* render_line when the mode it enters is HBlank.
TileStep(ticks) ==
    /\ gpu.ly < MaxTileLines
    /\ LET x      == gpu_step(gpu, mem.intf, ticks)
           hblank == x.gpu.mode = "HBlank" /\ gpu.mode # "HBlank"
       IN  /\ gpu' = x.gpu
           /\ mem' = [mem EXCEPT !.intf = x.intf]
           /\ vid' = IF hblank THEN render_line(vid, x.gpu) ELSE vid
           /\ vprobe' = IF hblank /\ x.gpu.lcd_enabled
                        THEN [vprobe EXCEPT !.dirty = {}, !.rendered = TRUE]
                        ELSE [vprobe EXCEPT !.rendered = FALSE]
    /\ UNCHANGED <<regs, last, timer, tprobe, gprobe, cart, cprobe, gb, wram, kprobe, entry>>

TileWrites == \E addr \in TileAddrs : TileWrite(addr, TileByte)
TileBanks == \E val \in {0, 1} : TileBank(val)
TileLcdcs == \E val \in LcdcBytes : TileLcdc(val)
TileSteps == \E ticks \in TileTicks : TileStep(ticks)

TileNext == TileWrites \/ TileBanks \/ TileLcdcs \/ TileSteps

SpecTile == TileInit /\ [][TileNext]_vars

\* C20: when a scanline is rendered with the LCD enabled, the cache entry of
\* every tile whose bytes in 0x8000-0x97FF were written since the previous
\* render holds the pixels of the tile's bytes in VRAM as they are at the
\* render, and no flag is left raised.
C20_WrittenTilesRebuilt ==
    [][vprobe'.rendered
       => /\ \A t \in vprobe.dirty : Get(vid'.tiles.data, t, ZeroTile) = tile_rows(vid, t)
          /\ vid'.vram = vid.vram
          /\ ~vid'.tiles.need_update
          /\ vid'.tiles.to_update = {}]_vars

\* A render that follows two writes to tile 0 of bank 1.
C20_Witness ==
    /\ vprobe.rendered
    /\ vprobe.writes = 2
    /\ NUM_TILES \in DOMAIN vid.tiles.data
    /\ vid.tiles.data[NUM_TILES][0] = [k \in 0 .. 7 |-> IF k \in {0, 7} THEN 3 ELSE 0]

-----------------------------------------------------------------------------
(* Programs run from the entry point with chosen registers *)

\* Everything outside the CPU and its memory, as constructed.
PeripheralsNew ==
    /\ timer = TimerNew
    /\ tprobe = TimerProbeNew
    /\ gpu = GpuNew
    /\ gprobe = GpuProbeNew
    /\ cart = CartridgeNew
    /\ cprobe = CartProbeNew
    /\ gb = GameboyNew
    /\ vid = VideoNew
    /\ wram = WramNew
    /\ vprobe = VideoProbeNew
    /\ kprobe = KeypadProbeNew

\* A ROM image holding the bytes of code from the entry point on.
program_rom(code) == [a \in ENTRY .. (ENTRY + Len(code) - 1) |-> code[a - ENTRY + 1]]

\* CPU::exec on the next byte of the program.
ProgramExec ==
    /\ regs.pc \in DOMAIN mem.rom
    /\ LET x == cpu_exec(regs, mem)
       IN  /\ regs' = x.regs
           /\ mem' = x.mem
           /\ last' = x.last
    /\ UNCHANGED <<timer, tprobe, gpu, gprobe, others>>

-----------------------------------------------------------------------------
(* ADD A,B followed by SUB B *)

\* 0x80 ADD A,B; 0x90 SUB B
AddSubProgram == <<128, 144>>

Bytes == 0 .. 255

AddSubInit ==
    /\ \E a \in Bytes, b \in Bytes : regs = [RegistersNew EXCEPT !.a = a, !.b = b]
    /\ entry = regs
    /\ mem = [MemoryNew EXCEPT !.rom = program_rom(AddSubProgram)]
    /\ last = LastNone
    /\ PeripheralsNew

SpecAddSub == AddSubInit /\ [][ProgramExec]_vars

\* The program has run to its end.
AddSubDone == regs.pc = ENTRY + Len(AddSubProgram)

\* C21: for every pair of bytes a and b, ADD A,B with A = a and B = b
\* followed by SUB B leaves A equal to a.
C21_AddThenSubRestoresA ==
    AddSubDone => (regs.a = entry.a /\ regs.b = entry.b)

\* The sum wrapped: 200 + 100 passes through 44 and comes back to 200.
C21_Witness ==
    AddSubDone /\ entry.a = 200 /\ entry.b = 100 /\ regs.a = 200

\* C22 as stated: after ADD A,B followed by SUB B, Carry and Half-carry are
\* both clear.
C22_AddThenSubClearsCarries ==
    AddSubDone => (BitAnd(regs.f, FLAG_C) = 0 /\ BitAnd(regs.f, FLAG_H) = 0)

\* C22: after ADD A,B followed by SUB B, Carry is set exactly when the sum
\* a + b passed 255 and Half-carry exactly when the sum of the low nibbles
\* passed 15; Subtract is set and Zero says whether a is 0.
C22_AddThenSubCarriesMirrorAdd ==
    AddSubDone =>
        /\ (BitAnd(regs.f, FLAG_C) # 0) <=> (entry.a + entry.b > 255)
        /\ (BitAnd(regs.f, FLAG_H) # 0) <=> ((entry.a % 16) + (entry.b % 16) > 15)
        /\ BitAnd(regs.f, FLAG_N) # 0
        /\ (BitAnd(regs.f, FLAG_Z) # 0) <=> (entry.a = 0)

\* 0xFF + 0x01: both carries of the addition come back as borrows.
C22_Witness ==
    AddSubDone /\ entry.a = 255 /\ entry.b = 1 /\ regs.f = FLAG_N + FLAG_H + FLAG_C

-----------------------------------------------------------------------------
(* One ALU instruction on chosen operands *)

\* Values F can hold: the four flag bits in every combination.
FlagBytes == {16 * k : k \in 0 .. 15}

\* Values of the operand: the ends of the range and the nibble and sign edges.
OperandBytes == {0, 1, 15, 128, 255}

\* The instructions run: ADC and SBC with a register or the next program
\* byte, and XOR with a register.
AluOpcodes == AdcOpcodes \cup SbcOpcodes \cup XorOpcodes \cup {OP_ADC_IMM, OP_SBC_IMM}

ImmediateOpcodes == {OP_ADD_IMM, OP_ADC_IMM, OP_SUB_IMM, OP_SBC_IMM}

\* The register file with x in the register the row op names and a in A.
with_operand(op, a, x, f) ==
    IF op \in ImmediateOpcodes
    THEN [RegistersNew EXCEPT !.a = a, !.f = f]
    ELSE [[RegistersNew EXCEPT ![alu_operand(op)] = x] EXCEPT !.a = a, !.f = f]

AluInit ==
    /\ \E op \in AluOpcodes, a \in Bytes, x \in OperandBytes, f \in FlagBytes :
          /\ regs = with_operand(op, a, x, f)
          /\ mem = [MemoryNew EXCEPT !.rom = program_rom(<<op, x>>)]
    /\ entry = regs
    /\ last = LastNone
    /\ PeripheralsNew

\* CPU::exec on the instruction at the entry point.
EntryExec ==
    /\ regs.pc = ENTRY
    /\ ProgramExec

SpecAlu == AluInit /\ [][EntryExec]_vars

\* The operand the instruction that ran names: the register of its row as
\* the program was entered, or the byte after the opcode.
OperandNamed ==
    IF last.opcode \in ImmediateOpcodes
    THEN mem.rom[ENTRY + 1]
    ELSE entry[alu_operand(last.opcode)]

\* Carry as the program was entered.
CarryIn == IF BitAnd(entry.f, FLAG_C) # 0 THEN 1 ELSE 0

\* C23: XOR A,A leaves A = 0 and F = 0x80 (Zero set, the other flags
\* clear), whatever A and F held before.
C23_XorAClearsA ==
    last.opcode = OP_XOR_A => (regs.a = 0 /\ regs.f = FLAG_Z)

C23_Witness ==
    last.opcode = OP_XOR_A /\ entry.a = 255 /\ entry.f = 240 /\ regs.a = 0 /\ regs.f = FLAG_Z

\* C29: SBC A,r for r in B, C, D, E, H, L (opcodes 0x98..0x9D) leaves
\* A = (A - r - carry) mod 256, with the value of the register r the
\* opcode names.
C29_SbcSubtractsNamedRegister ==
    (last.opcode \in SbcOpcodes \ {159}) =>
        regs.a = (entry.a + 512 - OperandNamed - CarryIn) % 256

\* C30: ADC A,x leaves A = (A + x + carry) mod 256 and sets Carry exactly
\* when A + x + carry exceeds 255.
C30_AdcAddsCarryIn ==
    (last.opcode \in AdcOpcodes \cup {OP_ADC_IMM}) =>
        /\ regs.a = (entry.a + OperandNamed + CarryIn) % 256
        /\ (BitAnd(regs.f, FLAG_C) # 0) <=> (entry.a + OperandNamed + CarryIn > 255)

-----------------------------------------------------------------------------
(* Instructions that write F, run in sequence *)

\* Instructions of a program.
FlagLen == 2

\* XOR A, POP AF, PUSH AF, DEC B, CPL, CCF, SCF, INC A and SUB B: the ways
\* the opcode table writes F, the masked pop among them.
FlagOpcodes ==
    {OP_XOR_A, OP_POP_AF, 245, OP_DEC_B, OP_CPL, OP_CCF, OP_SCF, OP_INC_A, 144}

\* Stack pointer the programs are entered with, 0xFFF0 in HRAM.
PROGRAM_SP == 65520

FlagInit ==
    /\ regs = [RegistersNew EXCEPT !.sp = PROGRAM_SP]
    /\ entry = regs
    /\ \E code \in [1 .. FlagLen -> FlagOpcodes], lo \in Bytes :
          mem = [MemoryNew EXCEPT !.rom = program_rom(code),
                                  !.hram[PROGRAM_SP % 128] = lo]
    /\ last = LastNone
    /\ PeripheralsNew

SpecFlags == FlagInit /\ [][ProgramExec]_vars

\* C24: the low nibble of F is 0 in every state the CPU reaches, POP AF of
\* any stack byte included.
C24_FlagLowNibbleZero == regs.f % 16 = 0

\* POP AF of the byte 0xFF left the four flags set and nothing else.
C24_Witness ==
    last.opcode = OP_POP_AF /\ mem.hram[PROGRAM_SP % 128] = 255 /\ regs.f = 240

-----------------------------------------------------------------------------
(* PUSH rr followed by POP rr *)

\* Stack pointers a program is entered with: as constructed, and lower in HRAM.
StackPointers == {STACK_TOP, PROGRAM_SP}

\* PUSH BC, DE, HL; the POP of the same pair is four opcodes below.
PairPushOpcodes == PushOpcodes \ {245}

PushPopInit ==
    /\ \E op \in PairPushOpcodes, hi \in OperandBytes, lo \in OperandBytes, sp \in StackPointers :
          /\ regs = [RegistersNew EXCEPT ![stack_pair(op)[1]] = hi,
                                         ![stack_pair(op)[2]] = lo,
                                         !.sp = sp]
          /\ mem = [MemoryNew EXCEPT !.rom = program_rom(<<op, op - 4>>)]
    /\ entry = regs
    /\ last = LastNone
    /\ PeripheralsNew

SpecPushPop == PushPopInit /\ [][ProgramExec]_vars

\* C27: PUSH rr immediately followed by POP rr, for BC, DE and HL, leaves
\* both halves of rr and SP as they were before the PUSH.
C27_PushPopRestoresPair ==
    (regs.pc = ENTRY + 2 /\ last.opcode \in PopOpcodes) =>
        /\ regs[stack_pair(last.opcode)[1]] = entry[stack_pair(last.opcode)[1]]
        /\ regs[stack_pair(last.opcode)[2]] = entry[stack_pair(last.opcode)[2]]
        /\ regs.sp = entry.sp

-----------------------------------------------------------------------------
(* Conditional return *)

\* Return addresses on the stack: 0x0150 and 0x1234.
ReturnTargets == {336, 4660}

RetOpcodes == {OP_RET_NZ, OP_RET_Z, OP_RET_NC, OP_RET_C}

RetInit ==
    /\ \E op \in RetOpcodes, f \in FlagBytes, target \in ReturnTargets :
          /\ regs = [RegistersNew EXCEPT !.f = f, !.sp = PROGRAM_SP]
          /\ mem = write_word([MemoryNew EXCEPT !.rom = program_rom(<<op, OP_NOP>>)],
                              PROGRAM_SP, target)
    /\ entry = regs
    /\ last = LastNone
    /\ PeripheralsNew

SpecRet == RetInit /\ [][EntryExec]_vars

\* C28: RET C (0xD8) pops the return address into PC and adds 2 to SP
\* exactly when Carry is set; with Carry clear SP is unchanged and PC is at
\* the next instruction.
C28_RetCReturnsOnCarry ==
    last.opcode = OP_RET_C =>
        IF BitAnd(entry.f, FLAG_C) # 0
        THEN regs.pc = read_word(mem, entry.sp) /\ regs.sp = entry.sp + 2
        ELSE regs.pc = ENTRY + 1 /\ regs.sp = entry.sp

-----------------------------------------------------------------------------
(* Cartridge RAM with four banks *)

\* Cartridge types with banked RAM: MBC1, MBC3, MBC5, each with RAM and battery.
BankedRamTypes == {3, 19, 27}

\* RAM-size code of 32 kB, four banks of 8 kB.
RAM_CODE_32K == 3

\* Bank numbers of a 32 kB RAM.
RamBankVals == 0 .. 3

BankInit ==
    /\ regs = RegistersNew
    /\ mem = MemoryNew
    /\ last = LastNone
    /\ timer = TimerNew
    /\ tprobe = TimerProbeNew
    /\ gpu = GpuNew
    /\ gprobe = GpuProbeNew
    /\ \E t \in BankedRamTypes : cart = from_file(t, 0, RAM_CODE_32K)
    /\ cprobe = CartProbeNew
    /\ gb = GameboyNew
    /\ UnitsNew

\* A write to 0x4000: the RAM bank, or on MBC1 in ROM banking mode the upper
\* ROM bank bits.
SelectRamBank == \E val \in RamBankVals : WriteRom(16384, val)

\* A write to 0x6000: the banking mode of MBC1.
SelectBankMode == \E val \in {0, 1} : WriteRom(24576, val)

BankedWrite == \E addr \in RamAddrs : WriteRam(addr, RamByte)

BankedRead == \E addr \in RamAddrs : ReadRam(addr)

BankNext == SelectRamBank \/ SelectBankMode \/ BankedWrite \/ BankedRead

SpecRamBanks == BankInit /\ [][BankNext]_vars

\* The byte a read of addr returns once bank j is selected.
read_in_bank(c, j, addr) == read_ram([c EXCEPT !.ram_bank = j], addr)

\* C25: a write to 0xA000-0xBFFF with RAM bank i selected leaves the value
\* read at every address under every other bank j as it was.
C25_RamBanksDisjoint ==
    [][BankedWrite =>
          \A j \in RamBankVals \ {cart.ram_bank}, addr \in RamAddrs :
              read_in_bank(cart', j, addr) = read_in_bank(cart, j, addr)]_vars

\* C26: on a cartridge that declares no RAM, whatever was written to
\* 0x0000-0x7FFF before, a read or write of 0xA000-0xBFFF does not index
\* past the end of the RAM buffer.
C26_NoRamNeverIndexed ==
    cart.ram_len = 0 =>
        ~(cprobe.panic /\ (cprobe.op = "read_ram" \/ cprobe.waddr \in 40960 .. 49151))

-----------------------------------------------------------------------------
(* RES b,r *)

ResInit ==
    /\ \E op \in ResOpcodes, x \in Bytes :
          /\ regs = [RegistersNew EXCEPT ![alu_operand(op)] = x]
          /\ mem = [MemoryNew EXCEPT !.rom = program_rom(<<OP_CB, op>>)]
    /\ entry = regs
    /\ last = LastNone
    /\ PeripheralsNew

SpecRes == ResInit /\ [][EntryExec]_vars

\* C31: RES b,r clears bit b of r and leaves the other bits of r, the other
\* registers and the flags as they were.
C31_ResClearsOneBit ==
    last.opcode = OP_CB =>
        LET op == mem.rom[ENTRY + 1]
        IN  regs = [entry EXCEPT ![alu_operand(op)] = ClearBit(@, (op - 128) \div 8),
                                 !.pc = ENTRY + 2]

-----------------------------------------------------------------------------
(* DEC (HL) *)

\* HL of the programs: 0xFF90, in HRAM.
PROGRAM_HL == 65424

DecHlInit ==
    /\ \E x \in Bytes, f \in FlagBytes :
          /\ regs = [RegistersNew EXCEPT !.h = PROGRAM_HL \div 256,
                                         !.l = PROGRAM_HL % 256, !.f = f]
          /\ mem = write_byte([MemoryNew EXCEPT !.rom = program_rom(<<OP_DEC_HLM>>)],
                              PROGRAM_HL, x)
    /\ entry = regs
    /\ last = LastNone
    /\ PeripheralsNew

SpecDecHl == DecHlInit /\ [][EntryExec]_vars

\* C32: DEC (HL) leaves Subtract set, Zero set exactly when the result is
\* 0, Half-carry set exactly when the low nibble of the result is 0xF, and
\* Carry as it was: the flags DEC r leaves for the same operand.
C32_DecHlFlagsAsDecR ==
    last.opcode = OP_DEC_HLM =>
        LET k == read_byte(mem, PROGRAM_HL)
        IN  /\ regs.f = FLAG_N + BitAnd(entry.f, FLAG_C)
                         + (IF k = 0 THEN FLAG_Z ELSE 0)
                         + (IF k % 16 = 15 THEN FLAG_H ELSE 0)
            /\ regs.f = dec_b([entry EXCEPT !.b = (k + 1) % 256]).f

-----------------------------------------------------------------------------
(* DI *)

\* C33: DI is deferred by one instruction: when DI executes with the
\* master enable set and nothing to dispatch, the master enable is still
\* set when exec returns, so that the following instruction runs with it.
C33_DiDeferred ==
    [][(/\ Exec
        /\ last'.opcode = OP_DI
        /\ interrupt_step(regs).ime = 1
        /\ BitAnd(mem.intf, mem.inte) = 0)
       => regs'.ime = 1]_vars

-----------------------------------------------------------------------------
(* STOP and the keypad *)

\* Programs that stop the CPU, with or without interrupts enabled first.
StopOpcodes == {OP_NOP, OP_STOP, OP_EI}

\* Enable masks: nothing, the Joypad alone, all five interrupts.
StopInteVals == {0, 16, 31}

StopInit ==
    /\ regs = RegistersNew
    /\ timer = TimerNew
    /\ tprobe = TimerProbeNew
    /\ gpu = GpuNew
    /\ gprobe = GpuProbeNew
    /\ OthersNew
    /\ \E p \in [ProgAddrs -> StopOpcodes], en \in StopInteVals, sw \in BOOLEAN :
          mem = [MemoryNew EXCEPT
                     !.rom = [a \in ExecAddrs |->
                                 IF a \in Vectors THEN OP_RETI ELSE p[a]],
                     !.inte = en, !.speed_switch = sw]
    /\ last = LastNone

\* Gameboy::run calls CPU::exec in a loop: a call that changes the state is
\* never postponed forever.
SpecStop == StopInit /\ [][CpuNext]_vars /\ WF_vars(Exec)

\* The Joypad interrupt is pending and enabled.
JoypadRaised == BitAnd(BitAnd(mem.intf, mem.inte), INT_JOYPAD) # 0

\* C34: a stopped CPU resumes after a button press: once the stop flag is
\* set and the Joypad bit is pending and enabled, a later exec clears the
\* stop flag, whatever the master enable.
C34_StopResumesOnKey == (regs.stop # 0 /\ JoypadRaised) ~> (regs.stop = 0)

-----------------------------------------------------------------------------
(* Interrupt masks as eight-bit registers *)

\* Bytes a program stores to 0xFF0F and 0xFFFF: both registers keep all
\* eight bits.
MaskIntfVals == {0, 5, 32, 33, 224}
MaskInteVals == {0, 24, 32, 255}

MaskOpcodes == {OP_NOP, OP_EI, OP_HALT}

MaskInit ==
    /\ regs = RegistersNew
    /\ timer = TimerNew
    /\ tprobe = TimerProbeNew
    /\ gpu = GpuNew
    /\ gprobe = GpuProbeNew
    /\ OthersNew
    /\ \E p \in [ProgAddrs -> MaskOpcodes], pf \in MaskIntfVals,
          en \in MaskInteVals :
          mem = [MemoryNew EXCEPT
                     !.rom = [a \in ExecAddrs |->
                                 IF a \in Vectors THEN OP_RETI ELSE p[a]],
                     !.intf = pf, !.inte = en]
    /\ last = LastNone

SpecMasks == MaskInit /\ [][CpuNext]_vars

\* C35: the interrupt-service step of exec changes the master enable, the
\* halt flag, the stop flag or the pending mask only when it dispatches:
\* PC is then one of the five vectors.
C35_ServiceOnlyDispatches ==
    [][Exec =>
        LET x == fetch_execute(interrupt_step(regs), mem)
        IN  (\/ regs'.ime # x.regs.ime
             \/ regs'.halt # x.regs.halt
             \/ regs'.stop # x.regs.stop
             \/ mem'.intf # x.mem.intf)
            => regs'.pc \in Vectors]_vars

-----------------------------------------------------------------------------
(* Scanline rendering *)

\* What the renderer did on the current line: on tells that the line began
\* with the display on and that it stayed on, n counts the runs of
\* render_line with the display on, rendered tells whether the last step
\* ran it.
ScanProbeNew == [on |-> FALSE, n |-> 0, rendered |-> FALSE]

ScanInit ==
    /\ regs = RegistersNew
    /\ mem = MemoryNew
    /\ last = LastNone
    /\ timer = TimerNew
    /\ tprobe = TimerProbeNew
    /\ gpu = GpuNew
    /\ gprobe = ScanProbeNew
    /\ OthersNew

\* Memory::step, the GPU's share: GPU::step calls switch_mode, which calls
\* render_line when the mode it enters is HBlank.
ScanStep(ticks) ==
    LET x      == gpu_step(gpu, mem.intf, ticks)
        hblank == x.gpu.mode = "HBlank" /\ gpu.mode # "HBlank"
        ran    == hblank /\ x.gpu.lcd_enabled
        k      == IF ran THEN 1 ELSE 0
    IN  /\ gpu' = x.gpu
        /\ mem' = [mem EXCEPT !.intf = x.intf]
        /\ vid' = IF hblank THEN render_line(vid, x.gpu) ELSE vid
        /\ gprobe' = IF x.gpu.ly # gpu.ly
                     THEN [on |-> gpu.lcd_enabled, n |-> k, rendered |-> ran]
                     ELSE [gprobe EXCEPT !.n = @ + k, !.rendered = ran]
        /\ UNCHANGED <<regs, last, timer, tprobe, cart, cprobe, gb, wram, vprobe,
                       kprobe, entry>>

\* Memory::write_byte_io, 0xFF40: switching the display on starts line 0
\* again, switching it off ends the observation of the line.
ScanLcdc(val) ==
    /\ gpu' = write_lcdc(gpu, val)
    /\ gprobe' = IF gpu'.lcd_enabled # gpu.lcd_enabled
                 THEN [on |-> gpu'.lcd_enabled, n |-> 0, rendered |-> FALSE]
                 ELSE [gprobe EXCEPT !.rendered = FALSE]
    /\ UNCHANGED <<regs, mem, last, timer, tprobe, others>>

ScanSteps == \E ticks \in GpuTicks : ScanStep(ticks)

ScanNext ==
    \/ ScanSteps
    \/ \E val \in LcdcBytes : ScanLcdc(val)

SpecScan == ScanInit /\ [][ScanNext]_vars

\* C37: with the display on and steps of at most 28 cycles, render_line has
\* run exactly once on every visible line and not at all on the lines
\* 144..153 when the line ends; it runs in the step in which the mode
\* enters HBlank and in no other.
C37_RenderOncePerLine ==
    [][ScanSteps =>
        /\ (gprobe.on /\ gpu'.ly # gpu.ly)
           => gprobe.n = (IF gpu.ly < 144 THEN 1 ELSE 0)
        /\ gprobe'.rendered
           => gpu'.ly < 144 /\ gpu'.mode = "HBlank" /\ gpu.mode # "HBlank"
        /\ (gpu'.lcd_enabled /\ gpu'.mode = "HBlank" /\ gpu.mode # "HBlank")
           => gprobe'.rendered]_vars

\* The last visible line of a frame has just been rendered, once.
C37_Witness ==
    /\ gprobe.on
    /\ gprobe.rendered
    /\ gprobe.n = 1
    /\ gpu.ly = 143
    /\ gpu.lcd_enabled

-----------------------------------------------------------------------------
(* The modes of a visible scanline *)

\* C38: after every step that leaves LY below 144 the mode is OAM-scan iff
\* the in-line clock is in [0, 80), VRAM-scan iff it is in [80, 252) and
\* HBlank iff it is in [252, 456).
C38_ModeWindows ==
    [][GpuSteps =>
        (gpu'.ly < 144
         => /\ gpu'.mode = "RdOAM" <=> gpu'.internal_clock \in 0 .. 79
            /\ gpu'.mode = "RdVRAM" <=> gpu'.internal_clock \in 80 .. 251
            /\ gpu'.mode = "HBlank" <=> gpu'.internal_clock \in 252 .. 455)]_vars

-----------------------------------------------------------------------------
(* The PPU under steps and register writes *)

\* Cycle counts handed to GPU::step: the shortest and the longest
\* instruction, and a whole line.
PpuTicks == {4, 28, 456}

\* Bytes written to STAT: no source enabled; the coincidence and the HBlank
\* sources enabled.
StatBytes == {0, 72}

\* Bytes written to LYC: the first line of the vertical blank.
LycBytes == {144}

\* Memory::step, the GPU's share.
PpuStep(ticks) ==
    /\ LET x == gpu_step(gpu, mem.intf, ticks)
       IN  /\ gpu' = x.gpu
           /\ mem' = [mem EXCEPT !.intf = x.intf]
    /\ UNCHANGED <<regs, last, timer, tprobe, gprobe, others>>

\* Memory::write_byte_io, 0xFF40, 0xFF41 and 0xFF45.
PpuWrite(g) ==
    /\ gpu' = g
    /\ UNCHANGED <<regs, mem, last, timer, tprobe, gprobe, others>>

PpuSteps == \E ticks \in PpuTicks : PpuStep(ticks)

PpuNext ==
    \/ PpuSteps
    \/ \E val \in LcdcBytes : PpuWrite(write_lcdc(gpu, val))
    \/ \E val \in StatBytes : PpuWrite(write_stat(gpu, val))
    \/ \E val \in LycBytes : PpuWrite(write_lyc(gpu, val))

SpecPpu == GpuInit /\ [][PpuNext]_vars

\* C39: a read of STAT has bit 2 set exactly when LY equals LYC.
C39_StatCoincidenceBit == Bit(read_stat(gpu), 2) = 1 <=> gpu.ly = gpu.lyc

\* C40: after every step of at most 456 cycles the in-line clock is below
\* 456 and the mode is VBlank exactly when LY is 144 or more.
C40_ClockAndVBlank ==
    [][PpuSteps => /\ gpu'.internal_clock < 456
                   /\ gpu'.mode = "VBlank" <=> gpu'.ly >= 144]_vars

\* The last cycles of the last line of a frame, with the display on and
\* LYC written.
C40_Witness ==
    /\ gpu.ly = 153
    /\ gpu.mode = "VBlank"
    /\ gpu.internal_clock = 452
    /\ gpu.lcd_enabled
    /\ gpu.lyc = 144

====
